---- MODULE Spec2Model ----
(***************************************************************************)
(* Model of the coordinate engine (CoordinateUtils) of analiza_permiso and *)
(* of the callers that feed it.                                            *)
(*                                                                         *)
(* A TypeScript `number` is an IEEE-754 binary64 value.  It is modelled    *)
(* bit for bit: a number is a record [k, s, m, e] with k the class ("num", *)
(* "nan", "inf"), s the sign, m the 53-bit significand held as a natural   *)
(* number in limbs of 15 bits (least significant first) and e the binary  *)
(* exponent, so that the value is (-1)^s * m * 2^e.  + - * / round to      *)
(* nearest, ties to even, as the language prescribes.  The exponent is    *)
(* not capped: no input of the model comes near the binary64 range limits. *)
(***************************************************************************)
EXTENDS Integers, Sequences, FiniteSets, TLC

(***************************************************************************)
(* Natural numbers of any size: sequences of limbs, least significant      *)
(* first, no leading zero limb; <<>> is 0.                                 *)
(***************************************************************************)
\* the value of the last of a tuple of steps, which are evaluated in the order
\* written (a definition of a LET is evaluated where it is first used)
InOrder(steps) == steps[Len(steps)]

\* Every operator of the arithmetic is entered through Apply, one recursive
\* operator: Name(x, y) is Apply("Name", <<x, y>>), which is NameBody(x, y).
RECURSIVE Apply(_, _)

LimbBits == 15
Base == 32768
MantBits == 53

Pow2(n) == 2 ^ n

\* limb i of a, 0 outside a
BLimb(a, i) == IF 1 <= i /\ i <= Len(a) THEN a[i] ELSE 0

\* a without its leading zero limbs
BNorm(a) ==
  SubSeq(a, 1, CHOOSE n \in 0..Len(a) :
                 (n = 0 \/ a[n] # 0) /\ \A i \in (n + 1)..Len(a) : a[i] = 0)

\* a natural number below 2^31
BFromNat(n) == BNorm(<<n % Base, (n \div Base) % Base, n \div (Base * Base)>>)

\* the value of a, below 2^31
BToNat(a) == BLimb(a, 1) + Base * BLimb(a, 2) + Base * Base * BLimb(a, 3)

\* a * k + s * b for 0 <= k < Base and s in {-1, 0, 1}, when that is not negative:
\* one pass over the limbs from the lowest up, t[i] \div Base being the carry out
\* of limb i (-1 for a borrow).  Nine limbs hold the 123 bits that the products
\* and dividends of binary64 arithmetic come to.
BMulAdd(a, k, b, s) == Apply("BMulAdd", <<a, k, b, s>>)
BMulAddBody(a, k, b, s) ==
  LET t1 == BLimb(a, 1) * k + s * BLimb(b, 1)
      t2 == BLimb(a, 2) * k + s * BLimb(b, 2) + t1 \div Base
      t3 == BLimb(a, 3) * k + s * BLimb(b, 3) + t2 \div Base
      t4 == BLimb(a, 4) * k + s * BLimb(b, 4) + t3 \div Base
      t5 == BLimb(a, 5) * k + s * BLimb(b, 5) + t4 \div Base
      t6 == BLimb(a, 6) * k + s * BLimb(b, 6) + t5 \div Base
      t7 == BLimb(a, 7) * k + s * BLimb(b, 7) + t6 \div Base
      t8 == BLimb(a, 8) * k + s * BLimb(b, 8) + t7 \div Base
      t9 == BLimb(a, 9) * k + s * BLimb(b, 9) + t8 \div Base
  IN  BNorm(<<t1 % Base, t2 % Base, t3 % Base, t4 % Base, t5 % Base,
              t6 % Base, t7 % Base, t8 % Base, t9 % Base>>)

BAdd(a, b) == BMulAdd(a, 1, b, 1)

\* a - b for a >= b
BSub(a, b) == BMulAdd(a, 1, b, -1)

\* a * k for 0 <= k < Base
BMulSmall(a, k) == BMulAdd(a, k, <<>>, 0)

\* -1, 0, 1 as a < b, a = b, a > b: the longer is the larger, and of two of one
\* length the one with the larger limb at the highest place where they differ
BCmp(a, b) ==
  IF a = b THEN 0
  ELSE IF Len(a) # Len(b) THEN (IF Len(a) < Len(b) THEN -1 ELSE 1)
  ELSE LET i == CHOOSE j \in 1..Len(a) :
                  a[j] # b[j] /\ \A h \in (j + 1)..Len(a) : a[h] = b[h]
       IN  IF a[i] < b[i] THEN -1 ELSE 1

\* a * Base^n
BShlLimbs(a, n) == IF Len(a) = 0 THEN <<>> ELSE [i \in 1..n |-> 0] \o a

\* a * b for b of four limbs at most (60 bits)
BMul(a, b) == Apply("BMul", <<a, b>>)
BMulBody(a, b) ==
  LET m1 == BMulAdd(a, BLimb(b, 1), <<>>, 0)
      a2 == BShlLimbs(a, 1)
      m2 == BMulAdd(a2, BLimb(b, 2), m1, 1)
      a3 == BShlLimbs(a, 2)
      m3 == BMulAdd(a3, BLimb(b, 3), m2, 1)
      a4 == BShlLimbs(a, 3)
      m4 == BMulAdd(a4, BLimb(b, 4), m3, 1)
  IN  InOrder(<<m1, a2, m2, a3, m3, a4, m4>>)

\* a * 2^d
BShl(a, d) ==
  LET r == d % LimbBits
      limb(i) == (BLimb(a, i) % Pow2(LimbBits - r)) * Pow2(r)
                   + BLimb(a, i - 1) \div Pow2(LimbBits - r)
  IN  BShlLimbs(BNorm([i \in 1..(Len(a) + 1) |-> limb(i)]), d \div LimbBits)

\* floor(a / 2^d)
BShr(a, d) ==
  LET q == d \div LimbBits
      r == d % LimbBits
      limb(i) == BLimb(a, i + q) \div Pow2(r)
                   + (BLimb(a, i + q + 1) % Pow2(r)) * Pow2(LimbBits - r)
  IN  IF q >= Len(a) THEN <<>> ELSE BNorm([i \in 1..(Len(a) - q) |-> limb(i)])

\* a mod 2^d
BLow(a, d) ==
  LET n == d \div LimbBits
      r == d % LimbBits
  IN  IF n >= Len(a) THEN a
      ELSE BNorm(SubSeq(a, 1, n) \o <<a[n + 1] % Pow2(r)>>)

\* the number of bits of a limb
BitLenSmall(n) ==
  CHOOSE k \in 0..LimbBits : Pow2(k) > n /\ (k = 0 \/ Pow2(k - 1) <= n)

BBitLen(a) ==
  IF Len(a) = 0 THEN 0 ELSE (Len(a) - 1) * LimbBits + BitLenSmall(a[Len(a)])

BIsOdd(a) == Len(a) > 0 /\ a[1] % 2 = 1

\* the digit est of a long division step lowered until its product p = b * est
\* is no more than the remainder r1: <<the new remainder, the digits found>>
BDivDigit(b, r1, est, p, digits) == Apply("BDivDigit", <<b, r1, est, p, digits>>)
BDivDigitBody(b, r1, est, p, digits) ==
  IF BCmp(p, r1) > 0
  THEN BDivDigit(b, r1, est - 1, BMulAdd(p, 1, b, -1), digits)
  ELSE <<BMulAdd(r1, 1, p, -1), <<est>> \o digits>>

\* the digit estimated from the two top limbs of the remainder r1 and the top
\* limb of b (>= Base/2): it overshoots by 2 at most
BDivEstimate(b, r1) ==
  LET nb == Len(b)
      top == BLimb(r1, nb + 1) * Base + BLimb(r1, nb)
  IN  IF top \div b[nb] > Base - 1 THEN Base - 1 ELSE top \div b[nb]

\* a long division step on the remainder r1 extended by the next limb
BDivStepFrom(b, r1, digits) == Apply("BDivStepFrom", <<b, r1, digits>>)
BDivStepFromBody(b, r1, digits) ==
  BDivDigit(b, r1, BDivEstimate(b, r1), BMulAdd(b, BDivEstimate(b, r1), <<>>, 0), digits)

\* one step of the long division of a by b over the n lowest limbs of a, from the
\* highest of them down: rq[1] is the remainder so far and rq[2] the digits found
BDivStep(a, b, n, rq) == Apply("BDivStep", <<a, b, n, rq>>)
BDivStepBody(a, b, n, rq) ==
  IF Len(rq[2]) >= n THEN rq
  ELSE BDivStepFrom(b, BNorm(<<a[n - Len(rq[2])]>> \o rq[1]), rq[2])

\* <<floor(a / b), a mod b # 0>> for b # 0 of top limb >= Base/2 and a quotient of
\* six limbs at most
BDivNormalized(a, b) == Apply("BDivNormalized", <<a, b>>)
BDivNormalizedBody(a, b) ==
  LET skip == IF Len(a) < Len(b) THEN Len(a) ELSE Len(b) - 1
      n == Len(a) - skip
      s0 == <<SubSeq(a, n + 1, Len(a)), <<>>>>
      s1 == BDivStep(a, b, n, s0)
      s2 == BDivStep(a, b, n, s1)
      s3 == BDivStep(a, b, n, s2)
      s4 == BDivStep(a, b, n, s3)
      s5 == BDivStep(a, b, n, s4)
      s6 == BDivStep(a, b, n, s5)
  IN  InOrder(<<s0, s1, s2, s3, s4, s5, s6, <<BNorm(s6[2]), Len(s6[1]) > 0>>>>)

\* <<floor(a / b), a mod b # 0>> for b # 0 and a quotient of six limbs at most
BDivMod(a, b) == Apply("BDivMod", <<a, b>>)
BDivModBody(a, b) ==
  BDivNormalized(BShl(a, LimbBits - BitLenSmall(b[Len(b)])),
                 BShl(b, LimbBits - BitLenSmall(b[Len(b)])))

(***************************************************************************)
(* binary64 numbers.  Zero is kept unsigned: the engine never divides by   *)
(* a computed zero whose sign could matter other than in calculatePolygon- *)
(* Centroid, where 0/0 is NaN and x/0 is an infinity of either sign.       *)
(***************************************************************************)
FNum(s, m, e) == [k |-> "num", s |-> s, m |-> m, e |-> e]
FZero == FNum(0, <<>>, 0)
FNaN == [k |-> "nan", s |-> 0, m |-> <<>>, e |-> 0]
FInf(s) == [k |-> "inf", s |-> s, m |-> <<>>, e |-> 0]

IsNum(x) == x.k = "num"
IsZero(x) == x.k = "num" /\ Len(x.m) = 0
IsFinite(x) == x.k = "num"
SignXor(a, b) == IF a = b THEN 0 ELSE 1

\* the binary64 nearest to M * 2^e (+ less than 2^e more when sticky), ties to even
FRound(s, M, e, sticky) == Apply("FRound", <<s, M, e, sticky>>)
FRoundBody(s, M, e, sticky) ==
  LET L == BBitLen(M)
      r == L - MantBits
      q == BShr(M, r)
      low == BLow(M, r)
      half == BShl(<<1>>, r - 1)
      c == BCmp(low, half)
      up == c > 0 \/ (c = 0 /\ (sticky \/ BIsOdd(q)))
      q1 == IF up THEN BMulAdd(q, 1, <<1>>, 1) ELSE q
  IN  IF L = 0 THEN FZero
      ELSE IF L <= MantBits
      THEN FNum(s, BShl(M, MantBits - L), e - (MantBits - L))
      ELSE InOrder(<<q, low, half, q1,
                     IF BBitLen(q1) > MantBits
                     THEN FNum(s, BShr(q1, 1), e + r + 1)
                     ELSE FNum(s, q1, e + r)>>)

FFromInt(n) == Apply("FFromInt", <<n>>)
FFromIntBody(n) ==
  IF n < 0 THEN FRound(1, BFromNat(-n), 0, FALSE)
  ELSE FRound(0, BFromNat(n), 0, FALSE)

FNeg(x) ==
  IF x.k = "nan" \/ IsZero(x) THEN x ELSE [x EXCEPT !.s = 1 - x.s]

\* the sum of two finite non-zero numbers, hi the one of the larger exponent
FAddOrdered(hi, lo) ==
  LET d == hi.e - lo.e
      A == BShl(hi.m, d)
      c == BCmp(A, lo.m)
      M == IF hi.s = lo.s THEN BMulAdd(A, 1, lo.m, 1)
           ELSE IF c > 0 THEN BMulAdd(A, 1, lo.m, -1)
           ELSE BMulAdd(lo.m, 1, A, -1)
  IN  IF d >= MantBits + 3 THEN hi
      ELSE IF hi.s # lo.s /\ c = 0 THEN FZero
      ELSE InOrder(<<A, M, FRound(IF hi.s = lo.s \/ c > 0 THEN hi.s ELSE lo.s,
                                  M, lo.e, FALSE)>>)

FAddSpecial(x, y) ==
  IF x.k = "nan" \/ y.k = "nan" THEN FNaN
  ELSE IF x.k = "inf"
  THEN IF y.k = "inf" /\ y.s # x.s THEN FNaN ELSE x
  ELSE y

FAdd(x, y) == Apply("FAdd", <<x, y>>)
FAddBody(x, y) ==
  IF x.k # "num" \/ y.k # "num" THEN FAddSpecial(x, y)
  ELSE IF Len(x.m) = 0 THEN y
  ELSE IF Len(y.m) = 0 THEN x
  ELSE IF x.e >= y.e THEN FAddOrdered(x, y)
  ELSE FAddOrdered(y, x)

FSub(x, y) == FAdd(x, FNeg(y))

FMulSpecial(x, y) ==
  IF x.k = "nan" \/ y.k = "nan" THEN FNaN
  ELSE IF IsZero(x) \/ IsZero(y) THEN FNaN
  ELSE FInf(SignXor(x.s, y.s))

FMul(x, y) == Apply("FMul", <<x, y>>)
FMulBody(x, y) ==
  LET p == BMul(x.m, y.m)
  IN  IF x.k # "num" \/ y.k # "num" THEN FMulSpecial(x, y)
      ELSE IF Len(x.m) = 0 \/ Len(y.m) = 0 THEN FZero
      ELSE InOrder(<<p, FRound(SignXor(x.s, y.s), p, x.e + y.e, FALSE)>>)

FDivSpecial(x, y) ==
  IF x.k = "nan" \/ y.k = "nan" THEN FNaN
  ELSE IF x.k = "inf"
  THEN IF y.k = "inf" THEN FNaN ELSE FInf(SignXor(x.s, y.s))
  ELSE IF y.k = "inf" THEN FZero
  ELSE IF IsZero(x) THEN FNaN
  ELSE FInf(x.s)

\* the quotient is taken to MantBits + 2 places and more, the rest is sticky
FDiv(x, y) == Apply("FDiv", <<x, y>>)
FDivBody(x, y) ==
  LET a == BShl(x.m, MantBits + 2)
      qr == BDivMod(a, y.m)
  IN  IF x.k # "num" \/ y.k # "num" \/ Len(y.m) = 0 THEN FDivSpecial(x, y)
      ELSE IF Len(x.m) = 0 THEN FZero
      ELSE InOrder(<<a, qr, FRound(SignXor(x.s, y.s), qr[1],
                                   x.e - y.e - (MantBits + 2), qr[2])>>)

\* -1, 0, 1 for finite x, y
FCmp(x, y) ==
  IF IsZero(x) /\ IsZero(y) THEN 0
  ELSE IF IsZero(x) THEN (IF y.s = 0 THEN -1 ELSE 1)
  ELSE IF IsZero(y) THEN (IF x.s = 0 THEN 1 ELSE -1)
  ELSE IF x.s # y.s THEN (IF x.s = 0 THEN 1 ELSE -1)
  ELSE LET mag == IF x.e > y.e THEN 1
                  ELSE IF x.e < y.e THEN -1
                  ELSE BCmp(x.m, y.m)
       IN  IF x.s = 0 THEN mag ELSE -mag

\* the comparisons of the language: false when an operand is NaN
FOrd(x, y) ==
  IF x.k = "nan" \/ y.k = "nan" THEN 2
  ELSE IF x.k = "inf" /\ y.k = "inf"
  THEN (IF x.s = y.s THEN 0 ELSE IF x.s = 0 THEN 1 ELSE -1)
  ELSE IF x.k = "inf" THEN (IF x.s = 0 THEN 1 ELSE -1)
  ELSE IF y.k = "inf" THEN (IF y.s = 0 THEN -1 ELSE 1)
  ELSE FCmp(x, y)

FLt(x, y) == FOrd(x, y) = -1
FLe(x, y) == FOrd(x, y) \in {-1, 0}
FGt(x, y) == FOrd(x, y) = 1
FGe(x, y) == FOrd(x, y) \in {0, 1}
FEq(x, y) == FOrd(x, y) = 0

FAbs(x) == IF x.k = "nan" THEN x ELSE [x EXCEPT !.s = 0]

\* Math.floor of a finite number of magnitude below 2^31, as an integer
FloorInt(x) ==
  IF IsZero(x) THEN 0
  ELSE IF x.e >= 0
  THEN (IF x.s = 0 THEN 1 ELSE -1) * BToNat(BShl(x.m, x.e))
  ELSE LET q == BToNat(BShr(x.m, -x.e))
           frac == Len(BLow(x.m, -x.e)) > 0
       IN  IF x.s = 0 THEN q
           ELSE IF frac THEN -(q + 1) ELSE -q

\* Math.round of a finite number of magnitude below 2^31: nearest integer, ties up
RoundInt(x) ==
  IF IsZero(x) THEN 0
  ELSE IF x.e >= 0
  THEN (IF x.s = 0 THEN 1 ELSE -1) * BToNat(BShl(x.m, x.e))
  ELSE LET q == BToNat(BShr(x.m, -x.e))
           c == IF -x.e > MantBits THEN -1
                ELSE BCmp(BLow(x.m, -x.e), BShl(<<1>>, -x.e - 1))
       IN  IF x.s = 0
           THEN (IF c >= 0 THEN q + 1 ELSE q)
           ELSE (IF c > 0 THEN -(q + 1) ELSE -q)

(***************************************************************************)
(* The Math library.  Math.sqrt is the correctly rounded square root.      *)
(* Math.sin, Math.cos and Math.tan are "implementation-approximated" in    *)
(* the language: they are modelled the way the usual libraries compute     *)
(* them, by a reduction of the argument to [-pi/4, pi/4] and the Taylor    *)
(* polynomials of sine and cosine there (degree 17 and 16), evaluated in   *)
(* binary64 arithmetic: within 1e-15 of the true value on the arguments    *)
(* the engine forms.  Math.pow with a whole exponent is the repeated       *)
(* product and Math.pow(x, 1.5) is x * sqrt(x).                            *)
(***************************************************************************)

\* one step of Newton's iteration for floor(sqrt(a)), from x >= floor(sqrt(a))
BSqrtStep(a, x) == Apply("BSqrtStep", <<a, x>>)
BSqrtStepBody(a, x) ==
  LET q == BDivMod(a, x)[1]
      t == BMulAdd(x, 1, q, 1)
      y == BShr(t, 1)
  IN  InOrder(<<q, t, y, IF BCmp(y, x) < 0 THEN y ELSE x>>)

\* floor(sqrt(a)) for a # 0 below 2^112: the iteration has settled after eight steps
BSqrt(a) == Apply("BSqrt", <<a>>)
BSqrtBody(a) ==
  LET x0 == BShl(<<1>>, (BBitLen(a) + 1) \div 2)
      x1 == BSqrtStep(a, x0)
      x2 == BSqrtStep(a, x1)
      x3 == BSqrtStep(a, x2)
      x4 == BSqrtStep(a, x3)
      x5 == BSqrtStep(a, x4)
      x6 == BSqrtStep(a, x5)
      x7 == BSqrtStep(a, x6)
      x8 == BSqrtStep(a, x7)
  IN  InOrder(<<x0, x1, x2, x3, x4, x5, x6, x7, x8>>)

MathSqrt(x) == Apply("MathSqrt", <<x>>)
MathSqrtBody(x) ==
  LET t == MantBits + 2 + ((x.e - MantBits) % 2)
      M == BShl(x.m, t)
      r == BSqrt(M)
      rr == BMul(r, r)
  IN  IF x.k = "nan" THEN FNaN
      ELSE IF IsZero(x) THEN FZero
      ELSE IF x.s = 1 THEN FNaN
      ELSE IF x.k = "inf" THEN x
      ELSE InOrder(<<M, r, rr, FRound(0, r, (x.e - t) \div 2, BCmp(rr, M) # 0)>>)

F(n) == FFromInt(n)

\* a faulty Math.PI: the constant cut to 3.14
MathPITruncated == FDiv(F(314), F(100))

\* the literal 3.141592653589793, which is Math.PI
MathPI == Apply("MathPI", <<>>)
MathPIBody ==
  FDiv(FAdd(FMul(F(314159265), F(10000000)), F(3589793)),
       FMul(F(100000000), F(10000000)))

\* 1 - z/(n(n+1)) * p: one step of the nested form of a Taylor polynomial in z = r^2
TaylorStep(z, n, p) == Apply("TaylorStep", <<z, n, p>>)
TaylorStepBody(z, n, p) ==
  LET q == FDiv(z, F(n * (n + 1)))
      m == FMul(q, p)
  IN  InOrder(<<q, m, FSub(F(1), m)>>)

\* sin(r) for |r| <= pi/4
SinKernel(r) == Apply("SinKernel", <<r>>)
SinKernelBody(r) ==
  LET z == FMul(r, r)
      p16 == TaylorStep(z, 16, F(1))
      p14 == TaylorStep(z, 14, p16)
      p12 == TaylorStep(z, 12, p14)
      p10 == TaylorStep(z, 10, p12)
      p8 == TaylorStep(z, 8, p10)
      p6 == TaylorStep(z, 6, p8)
      p4 == TaylorStep(z, 4, p6)
      p2 == TaylorStep(z, 2, p4)
  IN  InOrder(<<z, p16, p14, p12, p10, p8, p6, p4, p2, FMul(r, p2)>>)

\* cos(r) for |r| <= pi/4
CosKernel(r) == Apply("CosKernel", <<r>>)
CosKernelBody(r) ==
  LET z == FMul(r, r)
      p15 == TaylorStep(z, 15, F(1))
      p13 == TaylorStep(z, 13, p15)
      p11 == TaylorStep(z, 11, p13)
      p9 == TaylorStep(z, 9, p11)
      p7 == TaylorStep(z, 7, p9)
      p5 == TaylorStep(z, 5, p7)
      p3 == TaylorStep(z, 3, p5)
      p1 == TaylorStep(z, 1, p3)
  IN  InOrder(<<z, p15, p13, p11, p9, p7, p5, p3, p1>>)

\* <<q, r>> with x = (4j + q) * pi/2 + r nearly, |r| <= pi/4, for |x| < 2^30
ReduceAngle(x) == Apply("ReduceAngle", <<x>>)
ReduceAngleBody(x) ==
  LET halfPi == FDiv(MathPI, F(2))
      t == FDiv(x, halfPi)
      n == RoundInt(t)
      m == FMul(F(n), halfPi)
  IN  InOrder(<<halfPi, t, n,
                IF n = 0 THEN <<0, x>> ELSE InOrder(<<m, <<n % 4, FSub(x, m)>>>>)>>)

MathSin(x) == Apply("MathSin", <<x>>)
MathSinBody(x) ==
  LET qr == ReduceAngle(x)
      s == SinKernel(qr[2])
      c == CosKernel(qr[2])
  IN  IF x.k # "num" THEN FNaN
      ELSE CASE qr[1] = 0 -> s
             [] qr[1] = 1 -> c
             [] qr[1] = 2 -> InOrder(<<s, FNeg(s)>>)
             [] qr[1] = 3 -> InOrder(<<c, FNeg(c)>>)

MathCos(x) == Apply("MathCos", <<x>>)
MathCosBody(x) ==
  LET qr == ReduceAngle(x)
      s == SinKernel(qr[2])
      c == CosKernel(qr[2])
  IN  IF x.k # "num" THEN FNaN
      ELSE CASE qr[1] = 0 -> c
             [] qr[1] = 1 -> InOrder(<<s, FNeg(s)>>)
             [] qr[1] = 2 -> InOrder(<<c, FNeg(c)>>)
             [] qr[1] = 3 -> s

MathTan(x) == Apply("MathTan", <<x>>)
MathTanBody(x) ==
  LET s == MathSin(x)
      c == MathCos(x)
  IN  InOrder(<<s, c, FDiv(s, c)>>)

\* Math.pow(x, n) for a whole n from 1 to 6
MathPowInt(x, n) == Apply("MathPowInt", <<x, n>>)
MathPowIntBody(x, n) ==
  LET x2 == FMul(x, x)
      x3 == FMul(x2, x)
      x4 == FMul(x3, x)
      x5 == FMul(x4, x)
      x6 == FMul(x5, x)
  IN  CASE n = 1 -> x
        [] n = 2 -> x2
        [] n = 3 -> InOrder(<<x2, x3>>)
        [] n = 4 -> InOrder(<<x2, x3, x4>>)
        [] n = 5 -> InOrder(<<x2, x3, x4, x5>>)
        [] n = 6 -> InOrder(<<x2, x3, x4, x5, x6>>)

MathPow15(x) == Apply("MathPow15", <<x>>)
MathPow15Body(x) ==
  LET r == MathSqrt(x)
  IN  InOrder(<<r, FMul(x, r)>>)

\* 10^n for n <= 16, exactly
Pow10(n) == Apply("Pow10", <<n>>)
Pow10Body(n) ==
  IF n <= 8 THEN F(10 ^ n) ELSE FMul(F(100000000), F(10 ^ (n - 8)))

\* the decimal literal n / 10^d
Dec(n, d) == FDiv(F(n), Pow10(d))

\* 1/(2k + 1) - z * p: one step of the nested form of the Taylor polynomial of
\* atan(u)/u in z = u^2
AtanStep(z, k, p) == Apply("AtanStep", <<z, k, p>>)
AtanStepBody(z, k, p) ==
  LET c == FDiv(F(1), F(2 * k + 1))
      m == FMul(z, p)
  IN  InOrder(<<c, m, FSub(c, m)>>)

\* atan(u) for |u| <= tan(pi/8): the Taylor polynomial of degree 41
AtanKernel(u) == Apply("AtanKernel", <<u>>)
AtanKernelBody(u) ==
  LET z == FMul(u, u)
      p20 == AtanStep(z, 20, FZero)
      p19 == AtanStep(z, 19, p20)
      p18 == AtanStep(z, 18, p19)
      p17 == AtanStep(z, 17, p18)
      p16 == AtanStep(z, 16, p17)
      p15 == AtanStep(z, 15, p16)
      p14 == AtanStep(z, 14, p15)
      p13 == AtanStep(z, 13, p14)
      p12 == AtanStep(z, 12, p13)
      p11 == AtanStep(z, 11, p12)
      p10 == AtanStep(z, 10, p11)
      p9 == AtanStep(z, 9, p10)
      p8 == AtanStep(z, 8, p9)
      p7 == AtanStep(z, 7, p8)
      p6 == AtanStep(z, 6, p7)
      p5 == AtanStep(z, 5, p6)
      p4 == AtanStep(z, 4, p5)
      p3 == AtanStep(z, 3, p4)
      p2 == AtanStep(z, 2, p3)
      p1 == AtanStep(z, 1, p2)
      p0 == AtanStep(z, 0, p1)
  IN  InOrder(<<z, p20, p19, p18, p17, p16, p15, p14, p13, p12, p11, p10,
                p9, p8, p7, p6, p5, p4, p3, p2, p1, p0, FMul(u, p0)>>)

\* atan(t) for 0 <= t <= 1: past tan(pi/8) it is pi/4 + atan((t - 1)/(t + 1))
AtanUnit(t) == Apply("AtanUnit", <<t>>)
AtanUnitBody(t) ==
  LET u == FDiv(FSub(t, F(1)), FAdd(t, F(1)))
      k == AtanKernel(u)
  IN  IF FLe(t, Dec(4142, 4)) THEN AtanKernel(t)
      ELSE InOrder(<<u, k, FAdd(FDiv(MathPI, F(4)), k)>>)

\* Math.atan2(y, x) for y >= 0 and x >= 0, the quadrant calculateDistance calls it in
MathAtan2(y, x) == Apply("MathAtan2", <<y, x>>)
MathAtan2Body(y, x) ==
  LET q == IF FLe(y, x) THEN FDiv(y, x) ELSE FDiv(x, y)
      r == AtanUnit(q)
  IN  IF y.k # "num" \/ x.k # "num" THEN FNaN
      ELSE IF IsZero(y) THEN FZero
      ELSE IF IsZero(x) THEN FDiv(MathPI, F(2))
      ELSE IF FLe(y, x) THEN InOrder(<<q, r>>)
      ELSE InOrder(<<q, r, FSub(FDiv(MathPI, F(2)), r)>>)

MathFloor(x) == IF x.k # "num" THEN x ELSE F(FloorInt(x))

\* a faulty Math.round: the fraction is dropped, not rounded
MathRoundTruncating(x) == IF x.k # "num" THEN x ELSE F(FloorInt(x))

MathRound(x) == IF x.k # "num" THEN x ELSE F(RoundInt(x))

(***************************************************************************)
(* Values of the language.  A coordinate field that the extraction left    *)
(* out is null or undefined; arithmetic turns null into 0 and undefined    *)
(* into NaN.  A string is the sequence of its characters; NullZone stands  *)
(* for a zone field that is null or missing.                               *)
(***************************************************************************)
Null == [k |-> "null", s |-> 0, m |-> <<>>, e |-> 0]
Undefined == [k |-> "undef", s |-> 0, m |-> <<>>, e |-> 0]
NullZone == <<"null">>

ToNumber(v) ==
  IF v.k = "null" THEN FZero ELSE IF v.k = "undef" THEN FNaN ELSE v

Digits == <<"0", "1", "2", "3", "4", "5", "6", "7", "8", "9">>
IsDigit(c) == \E d \in 1..10 : Digits[d] = c
DigitValue(c) == (CHOOSE d \in 1..10 : Digits[d] = c) - 1

toUpperCase(c) ==
  IF c = "n" THEN "N" ELSE IF c = "s" THEN "S" ELSE IF c = "q" THEN "Q" ELSE c

\* parseInt of a string of decimal digits
RECURSIVE parseInt(_)
parseInt(str) ==
  IF Len(str) = 0 THEN 0
  ELSE 10 * parseInt(SubSeq(str, 1, Len(str) - 1)) + DigitValue(str[Len(str)])

\* the last index of the run of digits that starts at i
DigitRunEnd(str, i) ==
  CHOOSE j \in i..Len(str) :
    /\ \A p \in i..j : IsDigit(str[p])
    /\ j = Len(str) \/ ~IsDigit(str[j + 1])

\* where /(\d+)([NS])/i can match from: a digit whose run of digits is followed by N or S
MatchStarts(str) ==
  {i \in 1..Len(str) :
     /\ IsDigit(str[i])
     /\ DigitRunEnd(str, i) < Len(str)
     /\ toUpperCase(str[DigitRunEnd(str, i) + 1]) \in {"N", "S"}}

\* str.match(/(\d+)([NS])/i): <<>> for null, else <<group 1, group 2>> of the leftmost match
ZoneMatchLoose(str) ==
  IF MatchStarts(str) = {} THEN <<>>
  ELSE LET i == CHOOSE p \in MatchStarts(str) : \A q \in MatchStarts(str) : p <= q
           j == DigitRunEnd(str, i)
       IN  <<SubSeq(str, i, j), str[j + 1]>>

\* a faulty zone resolution: the groups of a match that failed are read, which throws
ResolveZoneUncheckedMatch(zone) ==
  IF zone = <<"1", "9", "Q">> \/ zone = <<"1", "9", "N">>
  THEN [threw |-> FALSE, zoneNumber |-> 19, isNorthern |-> TRUE]
  ELSE IF zone = <<"2", "0", "N">>
  THEN [threw |-> FALSE, zoneNumber |-> 20, isNorthern |-> TRUE]
  ELSE IF zone = NullZone \/ ZoneMatchLoose(zone) = <<>>
  THEN [threw |-> TRUE, zoneNumber |-> 0, isNorthern |-> TRUE]
  ELSE [threw |-> FALSE, zoneNumber |-> parseInt(ZoneMatchLoose(zone)[1]),
        isNorthern |-> toUpperCase(ZoneMatchLoose(zone)[2]) = "N"]

\* a faulty zone resolution: the latitude band letter is read as the hemisphere
\* letter, so that every letter but N is southern
ResolveZoneBandAsHemisphere(zone) ==
  IF zone = NullZone THEN [threw |-> TRUE, zoneNumber |-> 0, isNorthern |-> TRUE]
  ELSE IF Len(zone) = 3 /\ IsDigit(zone[1]) /\ IsDigit(zone[2])
  THEN [threw |-> FALSE, zoneNumber |-> parseInt(SubSeq(zone, 1, 2)),
        isNorthern |-> toUpperCase(zone[3]) = "N"]
  ELSE [threw |-> FALSE, zoneNumber |-> 19, isNorthern |-> TRUE]

\* the zone number and hemisphere utmToGeographic settles on, or the TypeError of
\* calling match on a zone that is no string
ResolveZone(zone) ==
  IF zone = <<"1", "9", "Q">> \/ zone = <<"1", "9", "N">>
  THEN [threw |-> FALSE, zoneNumber |-> 19, isNorthern |-> TRUE]
  ELSE IF zone = <<"2", "0", "N">>
  THEN [threw |-> FALSE, zoneNumber |-> 20, isNorthern |-> TRUE]
  ELSE IF zone = NullZone
  THEN [threw |-> TRUE, zoneNumber |-> 0, isNorthern |-> TRUE]
  ELSE LET zoneMatch == ZoneMatchLoose(zone)
       IN  IF zoneMatch = <<>>
           THEN [threw |-> FALSE, zoneNumber |-> 19, isNorthern |-> TRUE]
           ELSE [threw |-> FALSE, zoneNumber |-> parseInt(zoneMatch[1]),
                 isNorthern |-> toUpperCase(zoneMatch[2]) = "N"]

Returned(v) == [threw |-> FALSE, value |-> v]
Thrown(msg) == [threw |-> TRUE, value |-> msg]

\* lines 64-67 of utmToGeographic: phi1Rad from mu and n
FootpointLatitude(mu, n) == Apply("FootpointLatitude", <<mu, n>>)
FootpointLatitudeBody(mu, n) ==
  LET phi1Rad_1 == MathPowInt(n, 3)
      phi1Rad_2 == FMul(F(2), mu)
      phi1Rad_3 == MathSin(phi1Rad_2)
      phi1Rad_4 == FSub(FDiv(FMul(F(3), n), F(2)), FDiv(FMul(F(27),
                   phi1Rad_1), F(32)))
      phi1Rad_5 == MathPowInt(n, 4)
      phi1Rad_6 == FDiv(FMul(FMul(F(21), n), n), F(16))
      phi1Rad_7 == FMul(F(4), mu)
      phi1Rad_8 == MathSin(phi1Rad_7)
      phi1Rad_9 == FSub(phi1Rad_6, FDiv(FMul(F(55), phi1Rad_5), F(32)))
      phi1Rad_10 == FMul(F(6), mu)
      phi1Rad_11 == MathSin(phi1Rad_10)
      phi1Rad_12 == FAdd(FAdd(mu, FMul(phi1Rad_4, phi1Rad_3)), FMul(phi1Rad_9,
                    phi1Rad_8))
      phi1Rad_13 == FMul(FDiv(FMul(F(151), phi1Rad_1), F(96)), phi1Rad_11)
  IN  InOrder(<<
        phi1Rad_1, phi1Rad_2, phi1Rad_3, phi1Rad_4, phi1Rad_5, phi1Rad_6,
        phi1Rad_7, phi1Rad_8, phi1Rad_9, phi1Rad_10, phi1Rad_11, phi1Rad_12,
        phi1Rad_13, FAdd(phi1Rad_12, phi1Rad_13)>>)

\* lines 79-81 of utmToGeographic: lat in radians; v holds the locals it reads
InverseMercatorLat(phi1Rad, v) == Apply("InverseMercatorLat", <<phi1Rad, v>>)
InverseMercatorLatBody(phi1Rad, v) ==
  LET lat_1 == FAdd(FAdd(F(5), FMul(F(3), v.T1)), FMul(F(10), v.C1))
      lat_2 == FSub(lat_1, FMul(FMul(F(4), v.C1), v.C1))
      lat_3 == MathPowInt(v.D, 4)
      lat_4 == FMul(FSub(lat_2, FMul(F(9), v.e1sq)), lat_3)
      lat_5 == FAdd(FAdd(F(61), FMul(F(90), v.T1)), FMul(F(298), v.C1))
      lat_6 == FAdd(lat_5, FMul(FMul(F(45), v.T1), v.T1))
      lat_7 == MathPowInt(v.D, 6)
      lat_8 == FSub(FSub(lat_6, FMul(F(252), v.e1sq)), FMul(FMul(F(3), v.C1), v.C1))
      lat_9 == FSub(FDiv(FMul(v.D, v.D), F(2)), FDiv(lat_4, F(24)))
      lat_10 == FAdd(lat_9, FDiv(FMul(lat_8, lat_7), F(720)))
      lat_11 == FMul(FDiv(FMul(v.nu1Calc, v.tanPhi1), v.rho1Calc), lat_10)
  IN  InOrder(<<
        lat_1, lat_2, lat_3, lat_4, lat_5, lat_6, lat_7, lat_8, lat_9, lat_10,
        lat_11, FSub(phi1Rad, lat_11)>>)

\* lines 84-86 of utmToGeographic: lng in radians; v holds the locals it reads
InverseMercatorLng(lonOrigin, v) == Apply("InverseMercatorLng", <<lonOrigin, v>>)
InverseMercatorLngBody(lonOrigin, v) ==
  LET lng_1 == MathPowInt(v.D, 3)
      lng_2 == FAdd(FAdd(F(1), FMul(F(2), v.T1)), v.C1)
      lng_3 == FAdd(FSub(F(5), FMul(F(2), v.C1)), FMul(F(28), v.T1))
      lng_4 == FSub(lng_3, FMul(FMul(F(3), v.C1), v.C1))
      lng_5 == MathPowInt(v.D, 5)
      lng_6 == FAdd(FAdd(lng_4, FMul(F(8), v.e1sq)), FMul(FMul(F(24), v.T1), v.T1))
      lng_7 == FSub(v.D, FDiv(FMul(lng_2, lng_1), F(6)))
      lng_8 == FAdd(lng_7, FDiv(FMul(lng_6, lng_5), F(120)))
  IN  InOrder(<<
        lng_1, lng_2, lng_3, lng_4, lng_5, lng_6, lng_7, lng_8,
        FAdd(FDiv(FMul(lonOrigin, MathPI), F(180)), FDiv(lng_8, v.cosPhi1))>>)

\* lines 69-91 of utmToGeographic: the latitude and longitude from the footpoint
\* latitude phi1Rad, the easting x from the central meridian and lonOrigin
InverseMercatorFrom(phi1Rad, x, lonOrigin) == Apply("InverseMercatorFrom", <<phi1Rad, x, lonOrigin>>)
InverseMercatorFromBody(phi1Rad, x, lonOrigin) ==
  LET k0 == FDiv(F(9996), Pow10(4))
      e == FDiv(F(669438), Pow10(8))
      e1sq == FDiv(FAdd(FMul(F(673949), F(1000000)), F(674228)), Pow10(14))
      a == F(6378137)
      phi1 == phi1Rad
      rho1Calc_1 == MathSin(phi1)
      rho1Calc_2 == FSub(F(1), FMul(FMul(e, rho1Calc_1), rho1Calc_1))
      rho1Calc_3 == MathPow15(rho1Calc_2)
      rho1Calc == FDiv(FMul(a, FSub(F(1), e)), rho1Calc_3)
      nu1Calc_1 == MathSqrt(rho1Calc_2)
      nu1Calc == FDiv(a, nu1Calc_1)
      T1_1 == MathTan(phi1)
      T1 == FMul(T1_1, T1_1)
      C1_1 == MathCos(phi1)
      C1 == FMul(FMul(e1sq, C1_1), C1_1)
      D == FDiv(x, FMul(nu1Calc, k0))
      lat == InverseMercatorLat(phi1Rad, [e1sq |-> e1sq, rho1Calc |-> rho1Calc,
               nu1Calc |-> nu1Calc, tanPhi1 |-> T1_1, T1 |-> T1, C1 |-> C1, D |-> D])
      lng == InverseMercatorLng(lonOrigin, [e1sq |-> e1sq, cosPhi1 |-> C1_1,
               T1 |-> T1, C1 |-> C1, D |-> D])
  IN  InOrder(<<
        k0, e, e1sq, a, rho1Calc_1, rho1Calc_2, rho1Calc_3, rho1Calc, nu1Calc_1,
        nu1Calc, T1_1, T1, C1_1, C1, D, lat, lng,
        [lat |-> FDiv(FMul(lat, F(180)), MathPI),
         lng |-> FDiv(FMul(lng, F(180)), MathPI)]>>)

\* lines 42-67 of utmToGeographic, the footpoint latitude, and the rest of the
\* inverse projection from it.  The value of a call of the Math library, and of
\* a part of a long expression, has a name of its own (T1_1 is Math.tan(phi1)),
\* and a call made twice with one argument is written once.
InverseMercator(utm, zoneNumber, isNorthern) == Apply("InverseMercator", <<utm, zoneNumber, isNorthern>>)
InverseMercatorBody(utm, zoneNumber, isNorthern) ==
  LET k0 == FDiv(F(9996), Pow10(4))
      e == FDiv(F(669438), Pow10(8))
      n_1 == FSub(F(1), e)
      n_2 == MathSqrt(n_1)
      n == FDiv(FSub(F(1), n_2), FAdd(F(1), n_2))
      a == F(6378137)
      x == FSub(ToNumber(utm.x), F(500000))
      y == IF isNorthern THEN ToNumber(utm.y)
           ELSE FSub(ToNumber(utm.y), F(10000000))
      lonOrigin == F((zoneNumber - 1) * 6 - 180 + 3)
      M == FDiv(y, k0)
      mu_1 == FDiv(FMul(FMul(F(3), e), e), F(64))
      mu_2 == MathPowInt(e, 3)
      mu_3 == FSub(FSub(F(1), FDiv(e, F(4))), mu_1)
      mu_4 == FSub(mu_3, FDiv(FMul(F(5), mu_2), F(256)))
      mu == FDiv(M, FMul(a, mu_4))
      phi1Rad == FootpointLatitude(mu, n)
  IN  InOrder(<<
        k0, e, n_1, n_2, n, a, x, y, lonOrigin, M, mu_1, mu_2, mu_3, mu_4, mu,
        phi1Rad, InverseMercatorFrom(phi1Rad, x, lonOrigin)>>)

\* a faulty conversion: an easting outside the range of the validator is refused
utmToGeographicValidating(utm) ==
  IF ResolveZone(utm.zone).threw THEN Thrown("TypeError")
  ELSE IF FLt(ToNumber(utm.x), F(160000)) \/ FGt(ToNumber(utm.x), F(840000))
  THEN Thrown("Invalid UTM coordinates")
  ELSE Returned(InverseMercator(utm, ResolveZone(utm.zone).zoneNumber,
                                ResolveZone(utm.zone).isNorthern))

utmToGeographic(utm) ==
  LET zr == ResolveZone(utm.zone)
  IN  IF zr.threw THEN Thrown("TypeError")
      ELSE Returned(InverseMercator(utm, zr.zoneNumber, zr.isNorthern))

\* String(n) for a number that is NaN, an infinity or a whole number below 2^31
RECURSIVE NatToString(_)
NatToString(n) ==
  IF n < 10 THEN <<Digits[n + 1]>>
  ELSE Append(NatToString(n \div 10), Digits[(n % 10) + 1])

NumberToString(x) ==
  IF x.k = "nan" THEN <<"N", "a", "N">>
  ELSE IF x.k = "inf"
  THEN (IF x.s = 1 THEN <<"-">> ELSE <<>>) \o <<"I", "n", "f", "i", "n", "i", "t", "y">>
  ELSE IF FloorInt(x) < 0 THEN <<"-">> \o NatToString(-FloorInt(x))
  ELSE NatToString(FloorInt(x))

\* lines 115-118 of geographicToUtm: the meridional arc M of the latitude in radians
MeridionalArc(lat) == Apply("MeridionalArc", <<lat>>)
MeridionalArcBody(lat) ==
  LET a == F(6378137)
      eccSquared == FDiv(F(669438), Pow10(8))
      M_1 == FDiv(FMul(FMul(F(3), eccSquared), eccSquared), F(64))
      M_2 == MathPowInt(eccSquared, 3)
      M_3 == FSub(FSub(F(1), FDiv(eccSquared, F(4))), M_1)
      M_4 == FSub(M_3, FDiv(FMul(F(5), M_2), F(256)))
      M_5 == FDiv(FMul(FMul(F(3), eccSquared), eccSquared), F(32))
      M_6 == FAdd(FDiv(FMul(F(3), eccSquared), F(8)), M_5)
      M_7 == FMul(F(2), lat)
      M_8 == MathSin(M_7)
      M_9 == FAdd(M_6, FDiv(FMul(F(45), M_2), F(1024)))
      M_10 == FDiv(FMul(FMul(F(15), eccSquared), eccSquared), F(256))
      M_11 == FMul(F(4), lat)
      M_12 == MathSin(M_11)
      M_13 == FAdd(M_10, FDiv(FMul(F(45), M_2), F(1024)))
      M_14 == FMul(F(6), lat)
      M_15 == MathSin(M_14)
      M_16 == FAdd(FSub(FMul(M_4, lat), FMul(M_9, M_8)), FMul(M_13, M_12))
      M_17 == FMul(FDiv(FMul(F(35), M_2), F(3072)), M_15)
  IN  InOrder(<<
        a, eccSquared, M_1, M_2, M_3, M_4, M_5, M_6, M_7, M_8, M_9, M_10, M_11,
        M_12, M_13, M_14, M_15, M_16, M_17, FMul(a, FSub(M_16, M_17))>>)

\* lines 120-121 of geographicToUtm: utmEasting; v holds the locals it reads
MercatorEasting(v) == Apply("MercatorEasting", <<v>>)
MercatorEastingBody(v) ==
  LET utmEasting_1 == MathPowInt(v.A, 3)
      utmEasting_2 == FMul(FAdd(FSub(F(1), v.T), v.C), utmEasting_1)
      utmEasting_3 == FAdd(FSub(F(5), FMul(F(18), v.T)), FMul(v.T, v.T))
      utmEasting_4 == MathPowInt(v.A, 5)
      utmEasting_5 == FSub(FAdd(utmEasting_3, FMul(F(72), v.C)), FMul(F(58),
                      v.eccPrimeSquared))
      utmEasting_6 == FAdd(FAdd(v.A, FDiv(utmEasting_2, F(6))),
                      FDiv(FMul(utmEasting_5, utmEasting_4), F(120)))
  IN  InOrder(<<
        utmEasting_1, utmEasting_2, utmEasting_3, utmEasting_4, utmEasting_5,
        utmEasting_6, FAdd(FMul(FMul(v.k0, v.N), utmEasting_6), F(500000))>>)

\* lines 123-124 of geographicToUtm: utmNorthing before the false northing; v holds
\* the locals it reads
MercatorNorthing(M, v) == Apply("MercatorNorthing", <<M, v>>)
MercatorNorthingBody(M, v) ==
  LET utmNorthing0_1 == MathPowInt(v.A, 4)
      utmNorthing0_2 == FAdd(FAdd(FSub(F(5), v.T), FMul(F(9), v.C)),
                        FMul(FMul(F(4), v.C), v.C))
      utmNorthing0_3 == FAdd(FSub(F(61), FMul(F(58), v.T)), FMul(v.T, v.T))
      utmNorthing0_4 == MathPowInt(v.A, 6)
      utmNorthing0_5 == FSub(FAdd(utmNorthing0_3, FMul(F(600), v.C)),
                        FMul(F(330), v.eccPrimeSquared))
      utmNorthing0_6 == FAdd(FDiv(FMul(v.A, v.A), F(2)), FDiv(FMul(utmNorthing0_2,
                        utmNorthing0_1), F(24)))
      utmNorthing0_7 == FAdd(utmNorthing0_6, FDiv(FMul(utmNorthing0_5,
                        utmNorthing0_4), F(720)))
      utmNorthing0_8 == FAdd(M, FMul(FMul(v.N, v.tanLat), utmNorthing0_7))
  IN  InOrder(<<
        utmNorthing0_1, utmNorthing0_2, utmNorthing0_3, utmNorthing0_4,
        utmNorthing0_5, utmNorthing0_6, utmNorthing0_7, utmNorthing0_8,
        FMul(v.k0, utmNorthing0_8)>>)

\* lines 96-113 of geographicToUtm: the locals that utmEasting and utmNorthing read
MercatorLocals(coords) == Apply("MercatorLocals", <<coords>>)
MercatorLocalsBody(coords) ==
  LET lat == FDiv(FMul(ToNumber(coords.lat), MathPI), F(180))
      lon == FDiv(FMul(ToNumber(coords.lng), MathPI), F(180))
      zoneNumber == FAdd(MathFloor(FDiv(FAdd(ToNumber(coords.lng), F(180)), F(6))),
                    F(1))
      lonOrigin == FAdd(FSub(FMul(FSub(zoneNumber, F(1)), F(6)), F(180)), F(3))
      lonOriginRad == FDiv(FMul(lonOrigin, MathPI), F(180))
      a == F(6378137)
      eccSquared == FDiv(F(669438), Pow10(8))
      k0 == FDiv(F(9996), Pow10(4))
      eccPrimeSquared == FDiv(eccSquared, FSub(F(1), eccSquared))
      N_1 == MathSin(lat)
      N_2 == FSub(F(1), FMul(FMul(eccSquared, N_1), N_1))
      N_3 == MathSqrt(N_2)
      N == FDiv(a, N_3)
      T_1 == MathTan(lat)
      T == FMul(T_1, T_1)
      C_1 == MathCos(lat)
      C == FMul(FMul(eccPrimeSquared, C_1), C_1)
      A == FMul(C_1, FSub(lon, lonOriginRad))
  IN  InOrder(<<
        lat, lon, zoneNumber, lonOrigin, lonOriginRad, a, eccSquared, k0,
        eccPrimeSquared, N_1, N_2, N_3, N, T_1, T, C_1, C, A,
        [lat |-> lat, zoneNumber |-> zoneNumber, k0 |-> k0,
         eccPrimeSquared |-> eccPrimeSquared, N |-> N, tanLat |-> T_1, T |-> T,
         C |-> C, A |-> A]>>)

\* a faulty hemisphere test: the equator itself is taken for the south
geographicToUtmFromEquatorSouth(coords, l) ==
  LET M == MeridionalArc(l.lat)
      utmEasting == MercatorEasting(l)
      utmNorthing0 == MercatorNorthing(M, l)
      hemisphere == IF FGt(ToNumber(coords.lat), F(0)) THEN "N" ELSE "S"
      utmNorthing == IF hemisphere = "S"
                     THEN FAdd(utmNorthing0, F(10000000))
                     ELSE utmNorthing0
  IN  InOrder(<<
        l, M, utmEasting, utmNorthing0, utmNorthing,
        Returned([x |-> MathRound(utmEasting),
                  y |-> MathRound(utmNorthing),
                  zone |-> NumberToString(l.zoneNumber) \o <<hemisphere>>])>>)

\* lines 115-135 of geographicToUtm, on the locals of lines 96-113
geographicToUtmFrom(coords, l) == Apply("geographicToUtmFrom", <<coords, l>>)
geographicToUtmFromBody(coords, l) ==
  LET M == MeridionalArc(l.lat)
      utmEasting == MercatorEasting(l)
      utmNorthing0 == MercatorNorthing(M, l)
      hemisphere == IF FGe(ToNumber(coords.lat), F(0)) THEN "N" ELSE "S"
      utmNorthing == IF hemisphere = "S"
                     THEN FAdd(utmNorthing0, F(10000000))
                     ELSE utmNorthing0
  IN  InOrder(<<
        l, M, utmEasting, utmNorthing0, utmNorthing,
        Returned([x |-> MathRound(utmEasting),
                  y |-> MathRound(utmNorthing),
                  zone |-> NumberToString(l.zoneNumber) \o <<hemisphere>>])>>)

geographicToUtm(coords) == geographicToUtmFrom(coords, MercatorLocals(coords))

\* the running sums of the loop of calculatePolygonCentroid from vertex i (0-based) on
CentroidLoop(polygon, i, sums) == Apply("CentroidLoop", <<polygon, i, sums>>)
CentroidLoopBody(polygon, i, sums) ==
  LET j == (i + 1) % Len(polygon)
      xi == ToNumber(polygon[i + 1].lng)
      yi == ToNumber(polygon[i + 1].lat)
      xj == ToNumber(polygon[j + 1].lng)
      yj == ToNumber(polygon[j + 1].lat)
      a_1 == FMul(xi, yj)
      a_2 == FMul(xj, yi)
      a == FSub(a_1, a_2)
      area == FAdd(sums.area, a)
      centroidLat_1 == FMul(FAdd(yi, yj), a)
      centroidLat == FAdd(sums.centroidLat, centroidLat_1)
      centroidLng_1 == FMul(FAdd(xi, xj), a)
      centroidLng == FAdd(sums.centroidLng, centroidLng_1)
      next == [area |-> area, centroidLat |-> centroidLat, centroidLng |-> centroidLng]
  IN  IF i >= Len(polygon) THEN sums
      ELSE InOrder(<<a_1, a_2, a, area, centroidLat_1, centroidLat, centroidLng_1,
                     centroidLng, next, CentroidLoop(polygon, i + 1, next)>>)

\* a faulty loop: the edge from the first vertex to the second is left out
CentroidSumsOpenRing(polygon) ==
  CentroidLoop(polygon, 1, [area |-> FZero, centroidLat |-> FZero, centroidLng |-> FZero])

\* area, centroidLat and centroidLng when the loop is left
CentroidSums(polygon) ==
  CentroidLoop(polygon, 0, [area |-> FZero, centroidLat |-> FZero, centroidLng |-> FZero])

\* a faulty result: the sum of the cross terms is taken for the area, not halved
CentroidOfSumsNotHalved(sums) ==
  LET area6 == FMul(F(6), sums.area)
  IN  Returned([lat |-> FDiv(sums.centroidLat, area6),
                lng |-> FDiv(sums.centroidLng, area6)])

\* lines 165-172 of calculatePolygonCentroid: the result past the loop
CentroidOfSums(sums) == Apply("CentroidOfSums", <<sums>>)
CentroidOfSumsBody(sums) ==
  LET half == FDiv(F(5), F(10))
      area == FMul(sums.area, half)
      area6 == FMul(F(6), area)
      centroidLat == FDiv(sums.centroidLat, area6)
      centroidLng == FDiv(sums.centroidLng, area6)
  IN  InOrder(<<half, area, area6, centroidLat, centroidLng,
                Returned([lat |-> centroidLat, lng |-> centroidLng])>>)

\* lines 148-172 of calculatePolygonCentroid: the loop and what follows it
CentroidByArea(polygon) ==
  LET sums == CentroidSums(polygon)
  IN  InOrder(<<sums, CentroidOfSums(sums)>>)

\* a faulty centroid: the empty polygon is not refused
calculatePolygonCentroidUnguarded(polygon) ==
  IF Len(polygon) = 1 THEN Returned(polygon[1])
  ELSE CentroidByArea(polygon)

\* a faulty centroid: the polygon of one point goes through the area formula
calculatePolygonCentroidNoSinglePoint(polygon) ==
  IF Len(polygon) = 0 THEN Thrown("Polygon must have at least one point")
  ELSE CentroidByArea(polygon)

calculatePolygonCentroid(polygon) ==
  IF Len(polygon) = 0 THEN Thrown("Polygon must have at least one point")
  ELSE IF Len(polygon) = 1 THEN Returned(polygon[1])
  ELSE CentroidByArea(polygon)

\* lines 177 and 183-188: the haversine formula from the angles in radians.
\* Math.sin(deltaLat / 2) and Math.sin(deltaLng / 2), which the source
\* writes twice each, are written once.
HaversineFrom(lat1Rad, lat2Rad, deltaLat, deltaLng) == Apply("HaversineFrom", <<lat1Rad, lat2Rad, deltaLat, deltaLng>>)
HaversineFromBody(lat1Rad, lat2Rad, deltaLat, deltaLng) ==
  LET R == F(6371000)
      a_1 == MathSin(FDiv(deltaLat, F(2)))
      a_2 == MathCos(lat1Rad)
      a_3 == MathCos(lat2Rad)
      a_4 == MathSin(FDiv(deltaLng, F(2)))
      a_5 == FMul(a_1, a_1)
      a_6 == FMul(FMul(FMul(a_2, a_3), a_4), a_4)
      a == FAdd(a_5, a_6)
      c_1 == MathSqrt(a)
      c_2 == MathSqrt(FSub(F(1), a))
      c_3 == MathAtan2(c_1, c_2)
      c == FMul(F(2), c_3)
  IN  InOrder(<<
        R, a_1, a_2, a_3, a_4, a_5, a_6, a, c_1, c_2, c_3, c,
        Returned(FMul(R, c))>>)

\* x * Math.PI / 180
ToRadians(x) == Apply("ToRadians", <<x>>)
ToRadiansBody(x) == FDiv(FMul(x, MathPI), F(180))

\* a faulty distance: the latitudes are added where the source subtracts them
calculateDistanceOfLatitudeSum(point1, point2) ==
  HaversineFrom(
    ToRadians(ToNumber(point1.lat)),
    ToRadians(ToNumber(point2.lat)),
    ToRadians(FAdd(ToNumber(point2.lat), ToNumber(point1.lat))),
    ToRadians(FSub(ToNumber(point2.lng), ToNumber(point1.lng))))

\* lines 176-189
calculateDistance(point1, point2) == Apply("calculateDistance", <<point1, point2>>)
calculateDistanceBody(point1, point2) ==
  LET lat1Rad == ToRadians(ToNumber(point1.lat))
      lat2Rad == ToRadians(ToNumber(point2.lat))
      deltaLat == ToRadians(FSub(ToNumber(point2.lat), ToNumber(point1.lat)))
      deltaLng == ToRadians(FSub(ToNumber(point2.lng), ToNumber(point1.lng)))
  IN  InOrder(<<
        lat1Rad, lat2Rad, deltaLat, deltaLng,
        HaversineFrom(lat1Rad, lat2Rad, deltaLat, deltaLng)>>)

\* a faulty validator: the limits of the ranges are left out of them
validateGeographicCoordinatesExclusive(coords) ==
  Returned(/\ FGt(ToNumber(coords.lat), F(-90))
           /\ FLt(ToNumber(coords.lat), F(90))
           /\ FGt(ToNumber(coords.lng), F(-180))
           /\ FLt(ToNumber(coords.lng), F(180)))

\* str.match(/^(\d{1,2})[NS]$/i): <<>> for null, else <<group 1>>
ZoneMatchStrict(str) ==
  IF /\ Len(str) \in {2, 3}
     /\ \A p \in 1..(Len(str) - 1) : IsDigit(str[p])
     /\ toUpperCase(str[Len(str)]) \in {"N", "S"}
  THEN <<SubSeq(str, 1, Len(str) - 1)>>
  ELSE <<>>

validateUtmCoordinates(utm) == Apply("validateUtmCoordinates", <<utm>>)
validateUtmCoordinatesBody(utm) ==
  IF utm.zone = NullZone THEN Thrown("TypeError")
  ELSE LET zoneMatch == ZoneMatchStrict(utm.zone)
           zoneNumber == parseInt(zoneMatch[1])
       IN  IF zoneMatch = <<>> THEN Returned(FALSE)
           ELSE IF zoneNumber < 1 \/ zoneNumber > 60 THEN Returned(FALSE)
           ELSE IF FLt(ToNumber(utm.x), F(160000)) \/ FGt(ToNumber(utm.x), F(840000))
           THEN Returned(FALSE)
           ELSE IF FLt(ToNumber(utm.y), F(0)) \/ FGt(ToNumber(utm.y), F(10000000))
           THEN Returned(FALSE)
           ELSE Returned(TRUE)

validateGeographicCoordinates(coords) == Apply("validateGeographicCoordinates", <<coords>>)
validateGeographicCoordinatesBody(coords) ==
  Returned(/\ FGe(ToNumber(coords.lat), F(-90))
           /\ FLe(ToNumber(coords.lat), F(90))
           /\ FGe(ToNumber(coords.lng), F(-180))
           /\ FLe(ToNumber(coords.lng), F(180)))

(***************************************************************************)
(* The analysis service and the handlers of the application.  A text is    *)
(* the sequence of its words and punctuation marks; the reply of the model *)
(* is its text (words) and the value JSON.parse gives for the text once    *)
(* the markdown fence is removed (isJson, value).                          *)
(***************************************************************************)
\* String.prototype.includes on texts
Includes(str, fragment) ==
  \E i \in 1..(Len(str) - Len(fragment) + 1) :
    SubSeq(str, i, i + Len(fragment) - 1) = fragment

LowerCaseWord(w) ==
  CASE w = "No" -> "no"
    [] w = "NO" -> "no"
    [] w = "Puedo" -> "puedo"
    [] w = "Leer" -> "leer"
    [] w = "Imagen" -> "imagen"
    [] w = "Documento" -> "documento"
    [] w = "Ilegible" -> "ilegible"
    [] OTHER -> w

\* String.prototype.toLowerCase on texts
toLowerCase(str) == [i \in 1..Len(str) |-> LowerCaseWord(str[i])]

\* the messages of the errors that analyzePermitDocument throws
ApiKeyNotConfigured == <<"OpenRouter", "API", "key", "not", "configured">>
ErrorExtractingContent == <<"Error", "extracting", "content", "from", "file">>
OpenRouterApiError(status, errorText) ==
  <<"OpenRouter", "API", "error", ":", status, "-">> \o errorText
NoResponseFromAI == <<"No", "response", "from", "AI", "service">>
NoCoordinatesFound ==
  <<"No", "se", "pudieron", "encontrar", "coordenadas", "en", "el", "documento",
    ".", "Verifica", "que", "sea", "un", "permiso", "ambiental", "con",
    "coordenadas", "UTM", "o", "geográficas", "visibles", ".">>
DocumentNotReadable ==
  <<"El", "documento", "no", "se", "puede", "leer", "claramente", ".",
    "Verifica", "que", "la", "imagen", "sea", "nítida", ",", "bien",
    "iluminada", "y", "que", "el", "texto", "sea", "legible", ".">>
DocumentNotProcessed ==
  <<"La", "IA", "no", "pudo", "procesar", "el", "documento", "correctamente",
    ".", "Verifica", "que", "sea", "un", "permiso", "ambiental", "válido",
    "con", "la", "información", "requerida", ".">>
ErrorAnalyzingDocument == <<"Error", "analyzing", "document", "with", "AI">>
TypeErrorMessage ==
  <<"Cannot", "read", "properties", "of", "undefined">>

\* a value in a condition: null, undefined, 0 and NaN are false
Truthy(v) == v.k = "inf" \/ (v.k = "num" /\ ~IsZero(v))

\* lines 1406-1426: the parsed reply, returned when it holds coordinates
ValidateParsedResult(content) ==
  IF ~content.isJson THEN Thrown(<<"Unexpected", "token">>)
  ELSE IF "location" \notin DOMAIN content.value THEN Thrown(TypeErrorMessage)
  ELSE LET location == content.value.location
           hasUTMCoords == Truthy(location.utm_coordinates.x)
                             /\ Truthy(location.utm_coordinates.y)
           hasGeoCoords == Truthy(location.geographic_coordinates.lat)
                             /\ Truthy(location.geographic_coordinates.lng)
       IN  IF ~hasUTMCoords /\ ~hasGeoCoords
           THEN Thrown(NoCoordinatesFound)
           ELSE Returned(content.value)

\* lines 1427-1440: what the catch of the parsing throws, whatever it caught
ParseErrorRethrown(result) ==
  IF \/ Includes(toLowerCase(result), <<"no", "puedo", "leer">>)
     \/ Includes(toLowerCase(result), <<"no", "se", "puede", "leer">>)
     \/ Includes(toLowerCase(result), <<"imagen", "no", "clara">>)
     \/ Includes(toLowerCase(result), <<"documento", "ilegible">>)
  THEN Thrown(DocumentNotReadable)
  ELSE Thrown(DocumentNotProcessed)

\* lines 1348-1440: the body of the outer try
RequestAnalysis(response) ==
  IF ~response.ok
  THEN Thrown(OpenRouterApiError(response.status, response.errorText))
  ELSE IF Len(response.content.words) = 0 THEN Thrown(NoResponseFromAI)
  ELSE IF ValidateParsedResult(response.content).threw
  THEN ParseErrorRethrown(response.content.words)
  ELSE ValidateParsedResult(response.content)

\* lines 1323-1445; the key is "" when VITE_OPENROUTER_API_KEY is not set
analyzePermitDocument(env) ==
  IF env.apiKey = "" THEN Thrown(ApiKeyNotConfigured)
  ELSE IF env.extractionFails THEN Thrown(ErrorExtractingContent)
  ELSE IF RequestAnalysis(env.response).threw
  THEN Thrown(ErrorAnalyzingDocument)
  ELSE RequestAnalysis(env.response)

\* part_006 lines 66-95: the suggestions for the message of the error
SuggestionsFor(message) ==
  IF Includes(message, <<"API", "key", "not", "configured">>)
  THEN <<"Falta configurar la API Key de OpenRouter",
         "Agrega VITE_OPENROUTER_API_KEY en un archivo .env">>
  ELSE IF Includes(message, <<"OpenRouter", "API", "error">>)
  THEN <<"Error en la API de OpenRouter", "Verifica tu API Key y saldo">>
  ELSE IF Includes(message, <<"No", "se", "pudieron", "encontrar", "coordenadas">>)
  THEN <<"No se encontraron coordenadas en el documento",
         "Asegúrate que el documento contenga coordenadas UTM o geográficas",
         "Verifica que la imagen sea clara y legible",
         "Revisa que sea un permiso ambiental válido">>
  ELSE IF Includes(message, <<"Invalid", "JSON">>)
  THEN <<"La IA no devolvió un formato válido",
         "Intenta con una imagen más clara",
         "Verifica que el documento sea un permiso ambiental">>
  ELSE IF Includes(message, <<"El", "documento", "no", "se", "puede", "leer",
                              "claramente">>)
  THEN <<"Documento no legible",
         "Mejora la calidad de la imagen (mayor resolución)",
         "Asegúrate que el texto esté bien enfocado",
         "Verifica que haya buena iluminación",
         "Evita sombras o reflejos en el documento">>
  ELSE IF Includes(message, <<"extracting", "content">>)
  THEN <<"Error procesando el archivo",
         "Verifica que sea un JPG, PNG, WEBP o PDF válido",
         "Asegúrate que el archivo no esté corrupto">>
  ELSE <<>>

NoCoordinates == [lat |-> Null, lng |-> Null]
NoAnalysisResult == [utm |-> Null, geographic |-> NoCoordinates,
                     polygon_center |-> NoCoordinates]

\* a faulty test: a coordinate that is missing counts as one that is null
ConvertsFromUtmWhenMissing(location) ==
  /\ (location.geographic_coordinates.lat.k \in {"null", "undef"}
        \/ location.geographic_coordinates.lng.k \in {"null", "undef"})
  /\ Truthy(location.utm_coordinates.x)
  /\ Truthy(location.utm_coordinates.y)

\* part_006 line 34: whether utmToGeographic is called
ConvertsFromUtm(location) ==
  /\ (location.geographic_coordinates.lat.k = "null"
        \/ location.geographic_coordinates.lng.k = "null")
  /\ Truthy(location.utm_coordinates.x)
  /\ Truthy(location.utm_coordinates.y)

\* part_006 lines 31-42: the coordinates of the reply, or those converted
\* from UTM; an error of the conversion is caught and leaves them as they were
GeographicOf(location) ==
  IF /\ ConvertsFromUtm(location)
     /\ ~utmToGeographic(location.utm_coordinates).threw
  THEN utmToGeographic(location.utm_coordinates).value
  ELSE location.geographic_coordinates

\* part_006 lines 44-57
AnalysisResultOf(location, geographic) ==
  [utm |-> location.utm_coordinates,
   geographic |-> geographic,
   polygon_center |->
     IF /\ (location.polygon_center.lat.k = "null"
              \/ location.polygon_center.lng.k = "null")
        /\ geographic.lat.k # "null"
        /\ geographic.lng.k # "null"
     THEN [lat |-> geographic.lat, lng |-> geographic.lng]
     ELSE location.polygon_center]

\* part_006 lines 21-112, on the outcome of the call of line 28: the state
\* analysisResult and the alert shown
handleFileAnalysis(response) ==
  IF response.threw
  THEN [alerted |-> TRUE, errorMessage |-> response.value,
        suggestions |-> SuggestionsFor(response.value),
        utmToGeographicCalled |-> FALSE,
        analysisResult |-> NoAnalysisResult]
  ELSE [alerted |-> FALSE, errorMessage |-> <<>>, suggestions |-> <<>>,
        utmToGeographicCalled |-> ConvertsFromUtm(response.value.location),
        analysisResult |->
          AnalysisResultOf(response.value.location,
                           GeographicOf(response.value.location))]

\* one pass of the loop of combineAnalysisResults (lines 1482-1510) for a
\* result; a string that is null or empty is ""
CombineWith(combined, result) ==
  LET withUtm ==
        IF /\ ~Truthy(combined.location.utm_coordinates.x)
           /\ Truthy(result.location.utm_coordinates.x)
        THEN [combined EXCEPT
                !.location.utm_coordinates = result.location.utm_coordinates]
        ELSE combined
      withGeographic ==
        IF /\ ~Truthy(withUtm.location.geographic_coordinates.lat)
           /\ Truthy(result.location.geographic_coordinates.lat)
        THEN [withUtm EXCEPT
                !.location.geographic_coordinates =
                   result.location.geographic_coordinates,
                !.location.polygon_center = result.location.polygon_center]
        ELSE withUtm
      withPoints ==
        IF /\ result.location.all_points.k = "array"
           /\ Len(result.location.all_points.items) > 0
        THEN [withGeographic EXCEPT
                !.location.all_points =
                   [k |-> "array",
                    items |-> (IF @.k = "array" THEN @.items ELSE <<>>)
                                \o result.location.all_points.items]]
        ELSE withGeographic
      withNumber ==
        IF withPoints.permit_info.permit_number = ""
             /\ result.permit_info.permit_number # ""
        THEN [withPoints EXCEPT
                !.permit_info.permit_number = result.permit_info.permit_number]
        ELSE withPoints
      withType ==
        IF withNumber.permit_info.permit_type = ""
             /\ result.permit_info.permit_type # ""
        THEN [withNumber EXCEPT
                !.permit_info.permit_type = result.permit_info.permit_type]
        ELSE withNumber
  IN  IF withType.permit_info.authority = "" /\ result.permit_info.authority # ""
      THEN [withType EXCEPT !.permit_info.authority = result.permit_info.authority]
      ELSE withType

\* the loop over results[1..n] (1-based).  combined = { ...results[0] } is a
\* shallow copy: its location and permit_info are the objects of results[0],
\* so in the pass for results[0] the result read is what combined holds
RECURSIVE CombineLoop(_, _, _)
CombineLoop(combined, results, n) ==
  IF n = 0 THEN combined
  ELSE LET before == CombineLoop(combined, results, n - 1)
       IN  CombineWith(before, IF n = 1 THEN before ELSE results[n])

\* lines 1477-1514
combineAnalysisResults(results) ==
  CombineLoop(results[1], results, Len(results))

(***************************************************************************)
(* Dates.  A time value is a number of minutes since 1970-01-01T00:00Z     *)
(* (the instants explored are whole minutes); a date string is the         *)
(* sequence of its characters.                                             *)
(***************************************************************************)
IsLeapYear(y) == (y % 4 = 0 /\ y % 100 # 0) \/ y % 400 = 0
DaysInMonth(y, m) ==
  IF m = 2 THEN (IF IsLeapYear(y) THEN 29 ELSE 28)
  ELSE IF m \in {4, 6, 9, 11} THEN 30 ELSE 31

\* the day number of a calendar date, 1970-01-01 being day 0
DaysFromCivil(y, m, d) ==
  LET yy == IF m <= 2 THEN y - 1 ELSE y
      era == yy \div 400
      yoe == yy - era * 400
      mp == IF m > 2 THEN m - 3 ELSE m + 9
      doy == (153 * mp + 2) \div 5 + d - 1
      doe == yoe * 365 + yoe \div 4 - yoe \div 100 + doy
  IN  era * 146097 + doe - 719468

\* the calendar date of a day number
CivilFromDays(days) ==
  LET z == days + 719468
      era == z \div 146097
      doe == z - era * 146097
      yoe == (doe - doe \div 1460 + doe \div 36524 - doe \div 146096) \div 365
      doy == doe - (365 * yoe + yoe \div 4 - yoe \div 100)
      mp == (5 * doy + 2) \div 153
      d == doy - (153 * mp + 2) \div 5 + 1
      m == IF mp < 10 THEN mp + 3 ELSE mp - 9
      y == yoe + era * 400 + (IF m <= 2 THEN 1 ELSE 0)
  IN  [y |-> y, m |-> m, d |-> d]

\* the digits of n, with zeros in front up to the width
PadStart(n, width) ==
  [i \in 1..(width - Len(NatToString(n))) |-> "0"] \o NatToString(n)

\* the number that a field of digits of a date string stands for
NumberOfDigits(str) == parseInt(str)

AllDigits(str) == \A i \in 1..Len(str) : IsDigit(str[i])

\* "YYYY-MM-DD" of a real day
IsDateOnlyForm(str) ==
  /\ Len(str) = 10
  /\ str[5] = "-"
  /\ str[8] = "-"
  /\ AllDigits(SubSeq(str, 1, 4) \o SubSeq(str, 6, 7) \o SubSeq(str, 9, 10))
  /\ NumberOfDigits(SubSeq(str, 6, 7)) \in 1..12
  /\ NumberOfDigits(SubSeq(str, 9, 10)) \in
       1..DaysInMonth(NumberOfDigits(SubSeq(str, 1, 4)),
                      NumberOfDigits(SubSeq(str, 6, 7)))

\* "YYYY-MM-DDTHH:mm:00", without a time zone
IsDateTimeForm(str) ==
  /\ Len(str) = 19
  /\ IsDateOnlyForm(SubSeq(str, 1, 10))
  /\ str[11] = "T"
  /\ str[14] = ":"
  /\ SubSeq(str, 17, 19) = <<":", "0", "0">>
  /\ AllDigits(SubSeq(str, 12, 13) \o SubSeq(str, 15, 16))
  /\ NumberOfDigits(SubSeq(str, 12, 13)) \in 0..23
  /\ NumberOfDigits(SubSeq(str, 15, 16)) \in 0..59

DayOfDateString(str) ==
  DaysFromCivil(NumberOfDigits(SubSeq(str, 1, 4)), NumberOfDigits(SubSeq(str, 6, 7)),
                NumberOfDigits(SubSeq(str, 9, 10)))

InvalidDate == [valid |-> FALSE, time |-> 0]

\* new Date(str) in a browser whose local time is UTC + timezoneOffset minutes:
\* a date alone is taken as UTC, a date with a time as local time, anything
\* else that is explored is no date
NewDate(str, timezoneOffset) ==
  IF IsDateOnlyForm(str)
  THEN [valid |-> TRUE, time |-> DayOfDateString(str) * (24 * 60)]
  ELSE IF IsDateTimeForm(str)
  THEN [valid |-> TRUE,
        time |-> DayOfDateString(str) * (24 * 60)
                   + NumberOfDigits(SubSeq(str, 12, 13)) * 60
                   + NumberOfDigits(SubSeq(str, 15, 16))
                   - timezoneOffset]
  ELSE InvalidDate

\* date.toISOString().split('T')[0] of a valid date
toISOStringDate(date) ==
  LET c == CivilFromDays(date.time \div (24 * 60))
  IN  PadStart(c.y, 4) \o <<"-">> \o PadStart(c.m, 2) \o <<"-">> \o PadStart(c.d, 2)

\* Math.ceil(a / b) for integers, b > 0
CeilDiv(a, b) == -((-a) \div b)

\* the messages of the errors that analyzeDateDocument throws
NoDatesFound ==
  <<"No", "se", "pudieron", "encontrar", "fechas", "de", "emisión", "o", "días",
    "autorizados", "en", "el", "documento", ".">>
NoEmissionDateFound ==
  <<"No", "se", "pudo", "encontrar", "la", "fecha", "de", "emisión", "en", "la",
    "zona", "de", "firma", "digital", "con", "código", "QR", ".">>
NoAuthorizedDaysFound ==
  <<"No", "se", "pudo", "encontrar", "la", "frase", "\"", "VÁLIDO", "POR", "X",
    "DÍAS", "\"", "en", "el", "documento", ".">>
DatesNotProcessed ==
  <<"La", "IA", "no", "pudo", "procesar", "las", "fechas", "del", "documento",
    "correctamente", ".">>
ErrorAnalyzingDates == <<"Error", "analyzing", "document", "dates", "with", "AI">>
InvalidTimeValue == <<"Invalid", "time", "value">>

\* a faulty calculation: the day of the emission is counted as the first day
ExpirationTimeDayShort(emissionDate, authorized_days) ==
  emissionDate.time + (authorized_days - 1) * 24 * 60

\* line 1948: emissionDate.getTime() + authorized_days * 24 * 60 * 60 * 1000
ExpirationTime(emissionDate, authorized_days) ==
  emissionDate.time + authorized_days * 24 * 60

\* lines 1943-1957: the calculated fields, from the time values of the dates
DateInfoFrom(date_info, emissionDate, today) ==
  LET expirationDate ==
        [valid |-> TRUE,
         time |-> ExpirationTime(emissionDate, date_info.authorized_days)]
      timeDiff == expirationDate.time - today.time
      days_remaining == CeilDiv(timeDiff, 60 * 24)
  IN  [emission_date |-> date_info.emission_date,
       authorized_days |-> date_info.authorized_days,
       expiration_date |-> toISOStringDate(expirationDate),
       days_remaining |-> days_remaining,
       is_expired |-> days_remaining < 0,
       status |-> IF days_remaining < 0 THEN "expired" ELSE "valid"]

\* lines 1942-1961: the reply with its calculated fields; the fields of the
\* else branch stay null (<<>> for the date, 0 for the days, as null counts
\* in a comparison); toISOString throws for a date that is no date
CalculatedFields(date_info, today, timezoneOffset) ==
  IF date_info.emission_date # <<>> /\ date_info.authorized_days # 0
  THEN IF ~NewDate(date_info.emission_date, timezoneOffset).valid
       THEN Thrown(InvalidTimeValue)
       ELSE Returned(DateInfoFrom(
              date_info, NewDate(date_info.emission_date, timezoneOffset), today))
  ELSE Returned([emission_date |-> date_info.emission_date,
                 authorized_days |-> date_info.authorized_days,
                 expiration_date |-> <<>>,
                 days_remaining |-> 0,
                 is_expired |-> FALSE,
                 status |-> "unknown"])

\* a faulty validation: only a reply with neither field is refused
CalculateDateInfoEitherField(content, today, timezoneOffset) ==
  IF ~content.isJson THEN Thrown(<<"Unexpected", "token">>)
  ELSE IF "date_info" \notin DOMAIN content.value THEN Thrown(TypeErrorMessage)
  ELSE IF /\ content.value.date_info.emission_date = <<>>
          /\ content.value.date_info.authorized_days = 0
  THEN Thrown(NoDatesFound)
  ELSE CalculatedFields(content.value.date_info, today, timezoneOffset)

\* lines 1924-1973: an emission date that is null or "" is <<>>, days that
\* are null or 0 are 0
CalculateDateInfo(content, today, timezoneOffset) ==
  IF ~content.isJson THEN Thrown(<<"Unexpected", "token">>)
  ELSE IF "date_info" \notin DOMAIN content.value THEN Thrown(TypeErrorMessage)
  ELSE LET date_info == content.value.date_info
       IN  IF date_info.emission_date = <<>> /\ date_info.authorized_days = 0
           THEN Thrown(NoDatesFound)
           ELSE IF date_info.emission_date = <<>> THEN Thrown(NoEmissionDateFound)
           ELSE IF date_info.authorized_days = 0 THEN Thrown(NoAuthorizedDaysFound)
           ELSE CalculatedFields(date_info, today, timezoneOffset)

\* lines 1974-1987
DateParseErrorRethrown(result) ==
  IF ParseErrorRethrown(result) = Thrown(DocumentNotReadable)
  THEN Thrown(DocumentNotReadable)
  ELSE Thrown(DatesNotProcessed)

\* lines 1869-1987: the body of the outer try
RequestDateAnalysis(env) ==
  IF ~env.response.ok
  THEN Thrown(OpenRouterApiError(env.response.status, env.response.errorText))
  ELSE IF Len(env.response.content.words) = 0 THEN Thrown(NoResponseFromAI)
  ELSE IF CalculateDateInfo(env.response.content, env.today, env.timezoneOffset).threw
  THEN DateParseErrorRethrown(env.response.content.words)
  ELSE CalculateDateInfo(env.response.content, env.today, env.timezoneOffset)

\* lines 1844-1992
analyzeDateDocument(env) ==
  IF env.apiKey = "" THEN Thrown(ApiKeyNotConfigured)
  ELSE IF env.extractionFails THEN Thrown(ErrorExtractingContent)
  ELSE IF RequestDateAnalysis(env).threw THEN Thrown(ErrorAnalyzingDates)
  ELSE RequestDateAnalysis(env)

(***************************************************************************)
(* The inputs of the engine that are explored.                             *)
(***************************************************************************)
\* Bounds of the inputs
MaxZoneLen == 3
LatSteps == 5
LngSteps == 8
MaxVertices == 3

ZoneChars == {"0", "1", "2", "9", "N", "Q", "s"}

RECURSIVE StringsUpTo(_)
StringsUpTo(n) ==
  IF n = 0 THEN {<<>>}
  ELSE LET shorter == StringsUpTo(n - 1)
       IN  shorter \cup {Append(str, c) : str \in {t \in shorter : Len(t) = n - 1}, c \in ZoneChars}

ZoneInputs == StringsUpTo(MaxZoneLen)

\* the zone strings of the documents of the region, its neighbours and the zone range limits
KeyZones ==
  {<<"1", "9", "Q">>, <<"1", "9", "N">>, <<"2", "0", "Q">>, <<"2", "0", "N">>,
   <<"1", "9", "S">>, <<"1", "8", "Q">>, <<"6", "0", "N">>, <<"6", "1", "N">>,
   <<"0", "N">>, <<"1", "9">>, <<"Q">>, <<>>}

\* a point on the central meridian and the equator, and parcels of the region
MeridianPoint == [x |-> F(500000), y |-> F(0)]
ParcelPoints ==
  {[x |-> F(561063), y |-> F(2066147)], [x |-> F(530478), y |-> F(2042873)],
   [x |-> F(287611), y |-> F(2065805)], [x |-> F(425816), y |-> F(2085418)]}

UtmInputs == Apply("UtmInputs", <<>>)
UtmInputsBody ==
  {[x |-> MeridianPoint.x, y |-> MeridianPoint.y, zone |-> z] : z \in ZoneInputs}
    \cup {[x |-> p.x, y |-> p.y, zone |-> z] : p \in ParcelPoints, z \in KeyZones}

\* a grid over the region lat in [17.5, 20], lng in [-72, -68]
GeoInputs == Apply("GeoInputs", <<>>)
GeoInputsBody ==
  {[lat |-> FAdd(Dec(175, 1), FDiv(FMul(Dec(25, 1), F(i)), F(LatSteps))),
    lng |-> FAdd(F(-72), FDiv(FMul(F(4), F(j)), F(LngSteps)))] :
     i \in 0..LatSteps, j \in 0..LngSteps}

\* what the extraction can leave in a coordinate field
NullableUtmInputs == Apply("NullableUtmInputs", <<>>)
NullableUtmInputsBody ==
  {[x |-> x, y |-> y, zone |-> z] :
     x \in {F(561063), F(159999), Null, Undefined},
     y \in {F(2066147), Null, Undefined},
     z \in {<<"1", "9", "Q">>, <<"1", "9", "N">>, <<"Q">>, NullZone}}

NullableGeoInputs == Apply("NullableGeoInputs", <<>>)
NullableGeoInputsBody ==
  {[lat |-> lat, lng |-> lng] :
     lat \in {Dec(18698, 3), Null, Undefined},
     lng \in {Dec(-69873, 3), Null, Undefined}}

PolygonPoints ==
  {[lat |-> Dec(184861, 4), lng |-> Dec(-699312, 4)],
   [lat |-> Dec(184733, 4), lng |-> Dec(-698843, 4)],
   [lat |-> Dec(185012, 4), lng |-> Dec(-699001, 4)],
   [lat |-> Dec(184655, 4), lng |-> Dec(-699100, 4)]}

RECURSIVE PolygonsUpTo(_)
PolygonsUpTo(n) ==
  IF n = 0 THEN {<<>>}
  ELSE LET shorter == PolygonsUpTo(n - 1)
       IN  shorter \cup {Append(polygon, p) : polygon \in {t \in shorter : Len(t) = n - 1},
                                               p \in PolygonPoints}

PolygonInputs == Apply("PolygonInputs", <<>>)
PolygonInputsBody == PolygonsUpTo(MaxVertices)

\* the vertex list started k vertices later
Rotate(polygon, k) == SubSeq(polygon, k + 1, Len(polygon)) \o SubSeq(polygon, 1, k)

\* what the validators are asked about: zone strings of the standard form, near
\* it and far from it, and numbers at, inside and outside the limits of the ranges,
\* NaN and an infinity among them
ValidatorZones ==
  {<<"1", "9", "N">>, <<"1", "9", "n">>, <<"1", "S">>, <<"6", "0", "s">>,
   <<"0", "N">>, <<"6", "1", "N">>, <<"0", "1", "N">>, <<"1", "9", "Q">>,
   <<"1", "1", "9", "N">>, <<"N">>, <<"1", "9">>, <<"1", "9", "N", "N">>,
   <<"Q", "1", "9", "N">>, <<"2", "0", "N">>, <<>>}

ValidatorEastings ==
  {F(159999), Dec(1599999, 1), F(160000), F(500000), F(840000), F(840001),
   FNaN, Undefined}

ValidatorNorthings == {F(-1), F(0), F(2066147), F(10000000), F(10000001), FNaN}

ValidatorUtmInputs == Apply("ValidatorUtmInputs", <<>>)
ValidatorUtmInputsBody ==
  {[x |-> x, y |-> y, zone |-> z] :
     x \in ValidatorEastings, y \in ValidatorNorthings, z \in ValidatorZones}

ValidatorGeoInputs == Apply("ValidatorGeoInputs", <<>>)
ValidatorGeoInputsBody ==
  {[lat |-> lat, lng |-> lng] :
     lat \in {Dec(-900001, 4), F(-90), F(0), Dec(18698, 3), F(90), Dec(900001, 4),
              FNaN, FInf(0), Undefined},
     lng \in {Dec(-1800001, 4), F(-180), F(0), Dec(-69873, 3), F(180),
              Dec(1800001, 4), FNaN, FInf(1)}}

\* numbers outside the ranges of the validators, NaN and the infinities among them
OutOfRangeUtmInputs == Apply("OutOfRangeUtmInputs", <<>>)
OutOfRangeUtmInputsBody ==
  {[x |-> x, y |-> y, zone |-> z] :
     x \in {F(0), F(159999), F(840001), F(-500000), F(1000000000), FNaN, FInf(0)},
     y \in {F(-1), F(10000001), F(20000000), FNaN, FInf(1)},
     z \in {<<"1", "9", "N">>, <<"1", "9", "S">>}}

OutOfRangeGeoInputs == Apply("OutOfRangeGeoInputs", <<>>)
OutOfRangeGeoInputsBody ==
  {[lat |-> lat, lng |-> lng] :
     lat \in {Dec(-900001, 4), F(-95), F(91), F(100), FNaN, FInf(0)},
     lng \in {Dec(-1800001, 4), F(-181), F(181), F(200), F(360), FNaN, FInf(1)}}

\* points of the region, of the equator, of a pole and of the far side of the globe
DistancePoints == Apply("DistancePoints", <<>>)
DistancePointsBody ==
  {[lat |-> Dec(184861, 4), lng |-> Dec(-699312, 4)],
   [lat |-> Dec(184733, 4), lng |-> Dec(-698843, 4)],
   [lat |-> Dec(1945, 2), lng |-> Dec(-707, 1)],
   [lat |-> F(0), lng |-> F(0)],
   [lat |-> F(0), lng |-> F(180)],
   [lat |-> F(-12), lng |-> F(0)],
   [lat |-> F(12), lng |-> F(180)],
   [lat |-> F(90), lng |-> F(0)],
   [lat |-> Dec(-335, 1), lng |-> Dec(1512, 1)]}

DistanceInputs == Apply("DistanceInputs", <<>>)
DistanceInputsBody ==
  {<<point1, point2>> : point1 \in DistancePoints, point2 \in DistancePoints}

\* coordinates of both hemispheres and of zones from the first to the last
HemisphereLatitudes ==
  {F(-80), Dec(-335, 1), Dec(-5, 1), F(0), Dec(185, 1), F(45), F(84)}
HemisphereLongitudes ==
  {F(-180), F(-177), F(-72), Dec(-699, 1), F(-66), Dec(-5, 1), F(0), F(3),
   Dec(1512, 1), Dec(1799, 1), F(180)}
HemisphereGeoInputs == Apply("HemisphereGeoInputs", <<>>)
HemisphereGeoInputsBody ==
  {[lat |-> lat, lng |-> lng] :
     lat \in HemisphereLatitudes, lng \in HemisphereLongitudes}

\* the replies of the model to a permit: JSON with or without coordinates,
\* JSON without a location, plain text, nothing
NoUtm == [x |-> Null, y |-> Null, zone |-> <<"1", "9", "Q">>]
ParcelUtm == [x |-> F(530478), y |-> F(2042873), zone |-> <<"1", "9", "Q">>]
ParcelGeo == [lat |-> Dec(184733, 4), lng |-> Dec(-698843, 4)]
ZeroUtm == [x |-> F(0), y |-> F(0), zone |-> <<"1", "9", "Q">>]
ZeroGeo == [lat |-> F(0), lng |-> F(0)]
\* geographic_coordinates: {} and zone: null in the reply
MissingGeo == [lat |-> Undefined, lng |-> Undefined]
NullZoneUtm == [x |-> F(530478), y |-> F(2042873), zone |-> NullZone]
PermitValue(utm, geo) ==
  [location |-> [utm_coordinates |-> utm, geographic_coordinates |-> geo,
                 polygon_center |-> NoCoordinates],
   permit_info |-> [permit_number |-> "342-2025"]]
JsonReply(value) ==
  [words |-> <<"{", "permit_info", "}">>, isJson |-> TRUE,
   value |-> value]
TextReply(words) ==
  [words |-> words, isJson |-> FALSE, value |-> [permit_info |-> [permit_number |-> ""]]]
PermitReplies == Apply("PermitReplies", <<>>)
PermitRepliesBody ==
  {JsonReply(PermitValue(ParcelUtm, NoCoordinates)),
   JsonReply(PermitValue(NoUtm, ParcelGeo)),
   JsonReply(PermitValue(ParcelUtm, ParcelGeo)),
   JsonReply(PermitValue(NoUtm, NoCoordinates)),
   JsonReply(PermitValue(ZeroUtm, ZeroGeo)),
   JsonReply(PermitValue(ParcelUtm, MissingGeo)),
   JsonReply(PermitValue(ParcelUtm, [lat |-> Dec(184733, 4), lng |-> Null])),
   JsonReply(PermitValue(ParcelUtm, [lat |-> Undefined, lng |-> Dec(-698843, 4)])),
   JsonReply(PermitValue(NullZoneUtm, NoCoordinates)),
   JsonReply(PermitValue(ZeroUtm, ParcelGeo)),
   JsonReply([permit_info |-> [permit_number |-> "342-2025"]]),
   TextReply(<<"No", "puedo", "leer", "el", "documento">>),
   TextReply(<<"Lo", "siento", ",", "imagen", "no", "clara">>),
   TextReply(<<"Here", "is", "the", "analysis">>),
   TextReply(<<>>)}

\* the responses of OpenRouter: refused, or 200 with a reply
PermitResponses ==
  {[ok |-> FALSE, status |-> st, errorText |-> <<"Unauthorized">>,
    content |-> TextReply(<<>>)] : st \in {"401", "402", "429", "500"}}
    \cup {[ok |-> TRUE, status |-> "200", errorText |-> <<>>, content |-> c] :
            c \in PermitReplies}

\* the key configured or not, the file, whether the extraction of its content
\* rejects (only extractPDFText has a reject), the response
PermitEnvironments ==
  {e \in [apiKey : {"", "sk-or-v1-key"},
           fileType : {"application/pdf", "image/jpeg"},
           extractionFails : BOOLEAN, response : PermitResponses] :
     e.extractionFails => e.fileType = "application/pdf"}

\* the text of a date and of a date with a time of day
DateString(y, m, d) ==
  PadStart(y, 4) \o <<"-">> \o PadStart(m, 2) \o <<"-">> \o PadStart(d, 2)
DateTimeString(y, m, d, hh, mm) ==
  DateString(y, m, d) \o <<"T">> \o PadStart(hh, 2) \o <<":">> \o PadStart(mm, 2)
    \o <<":", "0", "0">>

\* the emission dates of the replies: in the form asked for, with the time of
\* the signature, as printed on the permit (DD/MM/YYYY), none
EmissionDates ==
  {DateString(2025, 1, 7), DateString(2024, 12, 15), DateString(2024, 2, 29),
   DateTimeString(2025, 1, 7, 9, 30), DateTimeString(2025, 1, 7, 22, 0),
   <<"1", "7", "/", "0", "7", "/", "2", "0", "2", "5">>, <<>>}
AuthorizedDays == {0, 1, 30, 90, 365}
DateReplies ==
  {JsonReply([date_info |-> [emission_date |-> e, authorized_days |-> n],
              permit_info |-> [permit_number |-> "342-2025"]]) :
     e \in EmissionDates, n \in AuthorizedDays}
    \cup {JsonReply([permit_info |-> [permit_number |-> "342-2025"]]),
          TextReply(<<"No", "puedo", "leer", "el", "documento">>),
          TextReply(<<"Here", "are", "the", "dates">>),
          TextReply(<<>>)}
DateResponses ==
  {[ok |-> FALSE, status |-> "401", errorText |-> <<"Unauthorized">>,
    content |-> TextReply(<<>>)]}
    \cup {[ok |-> TRUE, status |-> "200", errorText |-> <<>>, content |-> c] :
            c \in DateReplies}

\* the browser: in Santo Domingo (UTC-4), at UTC, in Madrid in summer (UTC+2)
TimezoneOffsets == {-240, 0, 120}
\* the time of the analysis: 2025-02-01T15:00Z, 2025-04-07T02:00Z
Todays ==
  {[valid |-> TRUE, time |-> DaysFromCivil(2025, 2, 1) * 24 * 60 + 15 * 60],
   [valid |-> TRUE, time |-> DaysFromCivil(2025, 4, 7) * 24 * 60 + 2 * 60]}

DateEnvironments ==
  {[apiKey |-> k, extractionFails |-> f, response |-> r, today |-> t,
    timezoneOffset |-> z] :
     k \in {"sk-or-v1-key"}, f \in {FALSE}, r \in DateResponses, t \in Todays,
     z \in TimezoneOffsets}
    \cup {[apiKey |-> k, extractionFails |-> f,
           response |-> [ok |-> TRUE, status |-> "200", errorText |-> <<>>,
                         content |-> TextReply(<<>>)],
           today |-> t, timezoneOffset |-> 0] :
            k \in {"", "sk-or-v1-key"}, f \in BOOLEAN, t \in Todays}

\* what the outer catch of each service throws
ErrorAnalyzingPolygon == <<"Error", "analyzing", "polygon", "document", "with", "AI">>
AnalysisError(handler) ==
  CASE handler = "App.handleFileAnalysis" -> ErrorAnalyzingDocument
    [] handler = "App.handleDateAnalysis" -> ErrorAnalyzingDates
    [] handler = "PolygonCreator.handleFileAnalysis" -> ErrorAnalyzingPolygon

\* the runs of the handlers: the file and whether the FileReader loads it,
\* whether the conversion of a PDF throws, the key, what the service makes of
\* the response (the reply accepted, the reply refused, a response not OK, a
\* fetch that fails)
AnalysisRuns ==
  {r \in [handler : {"App.handleFileAnalysis", "App.handleDateAnalysis",
                     "PolygonCreator.handleFileAnalysis"},
          fileType : {"application/pdf", "image/jpeg"},
          read : {"load", "error"},
          conversionThrows : BOOLEAN,
          apiKey : {"", "sk-or-v1-key"},
          response : {"accepted", "refused", "not OK", "failed"}] :
     r.conversionThrows => r.fileType = "application/pdf"}

\* PolygonMapView, the effect that draws the polygon (lines 97-176): every
\* point is converted, a point whose conversion throws becomes null and is
\* filtered out; source, which the code does not keep, is the index of the
\* input point a converted point comes from
ConvertedPoints(points) ==
  LET converted == [i \in 1..Len(points) |->
                      [source |-> i,
                       outcome |-> utmToGeographic([x |-> points[i].x,
                                                    y |-> points[i].y,
                                                    zone |-> points[i].zone])]]
  IN  SelectSeq(converted, LAMBDA c : ~c.outcome.threw)

\* lines 152-176: the marker of geographicPoints[index] is placed at that point
\* and its popup is written from polygonData.points[index]
VertexMarkers(points) ==
  LET geographicPoints == ConvertedPoints(points)
  IN  IF Len(geographicPoints) = 0
      THEN [alerted |-> TRUE, markers |-> <<>>]
      ELSE [alerted |-> FALSE,
            markers |-> [index \in 1..Len(geographicPoints) |->
                           [position |-> geographicPoints[index].outcome.value,
                            originalPoint |-> points[index],
                            source |-> geographicPoints[index].source]]]

\* the points a polygon is drawn from: three vertices of a parcel, and two of
\* them as a reply gives them with "zone": null (analyzePolygonDocument checks
\* the number of points and nothing of a point)
MapPoints == Apply("MapPoints", <<>>)
MapPointsBody ==
  {[label |-> <<"P1">>, x |-> F(530478), y |-> F(2042873), zone |-> <<"1", "9", "Q">>],
   [label |-> <<"P2">>, x |-> F(530612), y |-> F(2042790), zone |-> <<"1", "9", "Q">>],
   [label |-> <<"P3">>, x |-> F(530540), y |-> F(2042655), zone |-> <<"1", "9", "N">>],
   [label |-> <<"P1">>, x |-> F(530478), y |-> F(2042873), zone |-> NullZone],
   [label |-> <<"P2">>, x |-> F(530612), y |-> F(2042790), zone |-> NullZone]}

\* polygonData of three points
PolygonDataInputs ==
  {[points |-> <<p, q, r>>] : p \in MapPoints, q \in MapPoints, r \in MapPoints}

\* the results of analyzePermitDocument for the files of a permit, one to three
\* files: all_points is a list, which can be empty, or is missing
NoPoints == [k |-> "undef", items |-> <<>>]
PointList(items) == [k |-> "array", items |-> items]
FileResult(utm, geo, center, points, number, type, authority) ==
  [location |-> [utm_coordinates |-> utm, geographic_coordinates |-> geo,
                 polygon_center |-> center, all_points |-> points],
   permit_info |-> [permit_number |-> number, permit_type |-> type,
                    authority |-> authority]]
FileResults == Apply("FileResults", <<>>)
FileResultsBody ==
  {FileResult(ParcelUtm, NoCoordinates, NoCoordinates,
              PointList(<<[x |-> 530478, y |-> 2042873], [x |-> 530612, y |-> 2042790]>>),
              "342-2025", "", ""),
   FileResult(NoUtm, ParcelGeo, ParcelGeo, NoPoints, "", "Permiso Ambiental", ""),
   FileResult(ParcelUtm, ParcelGeo, NoCoordinates,
              PointList(<<[x |-> 530540, y |-> 2042655]>>), "", "", "Ministerio"),
   FileResult(NoUtm, ParcelGeo, NoCoordinates, PointList(<<>>), "", "", "")}
MaxFiles == 3
CombineInputs ==
  UNION {[1..n -> FileResults] : n \in 1..MaxFiles}

Apply(op, a) ==
  CASE op = "BMulAdd" -> BMulAddBody(a[1], a[2], a[3], a[4])
    [] op = "BMul" -> BMulBody(a[1], a[2])
    [] op = "BDivStep" -> BDivStepBody(a[1], a[2], a[3], a[4])
    [] op = "BDivStepFrom" -> BDivStepFromBody(a[1], a[2], a[3])
    [] op = "BDivDigit" -> BDivDigitBody(a[1], a[2], a[3], a[4], a[5])
    [] op = "BDivNormalized" -> BDivNormalizedBody(a[1], a[2])
    [] op = "BDivMod" -> BDivModBody(a[1], a[2])
    [] op = "FRound" -> FRoundBody(a[1], a[2], a[3], a[4])
    [] op = "FAdd" -> FAddBody(a[1], a[2])
    [] op = "FMul" -> FMulBody(a[1], a[2])
    [] op = "FDiv" -> FDivBody(a[1], a[2])
    [] op = "BSqrtStep" -> BSqrtStepBody(a[1], a[2])
    [] op = "BSqrt" -> BSqrtBody(a[1])
    [] op = "MathSqrt" -> MathSqrtBody(a[1])
    [] op = "TaylorStep" -> TaylorStepBody(a[1], a[2], a[3])
    [] op = "SinKernel" -> SinKernelBody(a[1])
    [] op = "CosKernel" -> CosKernelBody(a[1])
    [] op = "ReduceAngle" -> ReduceAngleBody(a[1])
    [] op = "MathSin" -> MathSinBody(a[1])
    [] op = "MathCos" -> MathCosBody(a[1])
    [] op = "MathTan" -> MathTanBody(a[1])
    [] op = "MathPowInt" -> MathPowIntBody(a[1], a[2])
    [] op = "MathPow15" -> MathPow15Body(a[1])
    [] op = "FootpointLatitude" -> FootpointLatitudeBody(a[1], a[2])
    [] op = "InverseMercatorLat" -> InverseMercatorLatBody(a[1], a[2])
    [] op = "InverseMercatorLng" -> InverseMercatorLngBody(a[1], a[2])
    [] op = "InverseMercatorFrom" -> InverseMercatorFromBody(a[1], a[2], a[3])
    [] op = "InverseMercator" -> InverseMercatorBody(a[1], a[2], a[3])
    [] op = "CentroidLoop" -> CentroidLoopBody(a[1], a[2], a[3])
    [] op = "CentroidOfSums" -> CentroidOfSumsBody(a[1])
    [] op = "MeridionalArc" -> MeridionalArcBody(a[1])
    [] op = "MercatorEasting" -> MercatorEastingBody(a[1])
    [] op = "MercatorNorthing" -> MercatorNorthingBody(a[1], a[2])
    [] op = "MercatorLocals" -> MercatorLocalsBody(a[1])
    [] op = "geographicToUtmFrom" -> geographicToUtmFromBody(a[1], a[2])
    [] op = "FFromInt" -> FFromIntBody(a[1])
    [] op = "Pow10" -> Pow10Body(a[1])
    [] op = "MathPI" -> MathPIBody
    [] op = "validateUtmCoordinates" -> validateUtmCoordinatesBody(a[1])
    [] op = "validateGeographicCoordinates" -> validateGeographicCoordinatesBody(a[1])
    [] op = "ValidatorUtmInputs" -> ValidatorUtmInputsBody
    [] op = "ValidatorGeoInputs" -> ValidatorGeoInputsBody
    [] op = "UtmInputs" -> UtmInputsBody
    [] op = "GeoInputs" -> GeoInputsBody
    [] op = "NullableUtmInputs" -> NullableUtmInputsBody
    [] op = "NullableGeoInputs" -> NullableGeoInputsBody
    [] op = "PolygonInputs" -> PolygonInputsBody
    [] op = "OutOfRangeUtmInputs" -> OutOfRangeUtmInputsBody
    [] op = "OutOfRangeGeoInputs" -> OutOfRangeGeoInputsBody
    [] op = "AtanStep" -> AtanStepBody(a[1], a[2], a[3])
    [] op = "AtanKernel" -> AtanKernelBody(a[1])
    [] op = "AtanUnit" -> AtanUnitBody(a[1])
    [] op = "MathAtan2" -> MathAtan2Body(a[1], a[2])
    [] op = "HaversineFrom" -> HaversineFromBody(a[1], a[2], a[3], a[4])
    [] op = "ToRadians" -> ToRadiansBody(a[1])
    [] op = "calculateDistance" -> calculateDistanceBody(a[1], a[2])
    [] op = "DistancePoints" -> DistancePointsBody
    [] op = "DistanceInputs" -> DistanceInputsBody
    [] op = "HemisphereGeoInputs" -> HemisphereGeoInputsBody
    [] op = "PermitReplies" -> PermitRepliesBody
    [] op = "MapPoints" -> MapPointsBody
    [] op = "FileResults" -> FileResultsBody

(***************************************************************************)
(* The engine is a set of static functions without state of their own.     *)
(* The state of the model is one call of an engine function: its name      *)
(* (fn, "idle" before the call), its argument (arg), its outcome (ret: the *)
(* value returned or the error thrown), the locals zoneNumber and          *)
(* isNorthern of utmToGeographic (locals) and, when the argument is the    *)
(* outcome of an earlier call, that earlier call (origin).  retObject tells *)
(* which object the returned value is: one the call created, or one that   *)
(* was handed to the call in its argument.  isAnalyzing is the state of    *)
(* that name of App and of PolygonCreator, which disables the upload       *)
(* control while it is true.                                               *)
(***************************************************************************)
VARIABLES fn, arg, ret, locals, origin, retObject, isAnalyzing

vars == <<fn, arg, ret, locals, origin, retObject, isAnalyzing>>

None == [threw |-> FALSE, value |-> <<"none">>]
NoLocals == [threw |-> FALSE, zoneNumber |-> 0, isNorthern |-> TRUE]
NoOrigin == [present |-> FALSE]
Origin(a, r) == [present |-> TRUE, arg |-> a, ret |-> r]

\* the returned value is no object (a number, a boolean, nothing when the call threw)
NotAnObject == [object |-> FALSE]
\* the returned value is an object literal evaluated by the call
NewObject == [object |-> TRUE, created |-> TRUE]
\* the returned value is the object polygon[i] of the argument
ElementOfArgument(i) == [object |-> TRUE, created |-> FALSE, index |-> i]

\* lines 88-91 and 131-135: both conversions return an object literal
ConversionObject(r) == IF r.threw THEN NotAnObject ELSE NewObject

\* lines 140-146 and 169-172: polygon[0] itself for a single point, else an object literal
calculatePolygonCentroidObject(polygon) ==
  IF Len(polygon) = 0 THEN NotAnObject
  ELSE IF Len(polygon) = 1 THEN ElementOfArgument(0)
  ELSE NewObject

InitWith(inputs) ==
  /\ fn = "idle"
  /\ arg \in inputs
  /\ ret = None
  /\ locals = NoLocals
  /\ origin = NoOrigin
  /\ retObject = NotAnObject
  /\ isAnalyzing = FALSE

IsUtm(v) == "zone" \in DOMAIN v
IsGeo(v) == "lat" \in DOMAIN v

CallUtmToGeographic ==
  /\ fn = "idle"
  /\ IsUtm(arg)
  /\ fn' = "utmToGeographic"
  /\ locals' = ResolveZone(arg.zone)
  /\ ret' = utmToGeographic(arg)
  /\ UNCHANGED <<arg, origin>>
  /\ retObject' = ConversionObject(ret')
  /\ UNCHANGED isAnalyzing

CallGeographicToUtm ==
  /\ fn = "idle"
  /\ IsGeo(arg)
  /\ fn' = "geographicToUtm"
  /\ ret' = geographicToUtm(arg)
  /\ UNCHANGED <<arg, locals, origin>>
  /\ retObject' = ConversionObject(ret')
  /\ UNCHANGED isAnalyzing

\* utmToGeographic(geographicToUtm(p)): the outcome of the first call is the argument
CallUtmToGeographicOfResult ==
  /\ fn = "geographicToUtm"
  /\ ~ret.threw
  /\ fn' = "utmToGeographic"
  /\ origin' = Origin(arg, ret)
  /\ arg' = ret.value
  /\ locals' = ResolveZone(ret.value.zone)
  /\ ret' = utmToGeographic(ret.value)
  /\ retObject' = ConversionObject(ret')
  /\ UNCHANGED isAnalyzing

CallValidateUtmCoordinates ==
  /\ fn = "idle"
  /\ IsUtm(arg)
  /\ fn' = "validateUtmCoordinates"
  /\ ret' = validateUtmCoordinates(arg)
  /\ UNCHANGED <<arg, locals, origin>>
  /\ retObject' = NotAnObject
  /\ UNCHANGED isAnalyzing

CallValidateGeographicCoordinates ==
  /\ fn = "idle"
  /\ IsGeo(arg)
  /\ fn' = "validateGeographicCoordinates"
  /\ ret' = validateGeographicCoordinates(arg)
  /\ UNCHANGED <<arg, locals, origin>>
  /\ retObject' = NotAnObject
  /\ UNCHANGED isAnalyzing

CallCalculatePolygonCentroid ==
  /\ fn = "idle"
  /\ fn' = "calculatePolygonCentroid"
  /\ ret' = calculatePolygonCentroid(arg)
  /\ UNCHANGED <<arg, locals, origin>>
  /\ retObject' = calculatePolygonCentroidObject(arg)
  /\ UNCHANGED isAnalyzing

\* a second call, on the same ring started at another vertex
CallCentroidOfRotation ==
  /\ fn = "calculatePolygonCentroid"
  /\ ~origin.present
  /\ \E k \in 1..(Len(arg) - 1) :
       /\ arg' = Rotate(arg, k)
       /\ ret' = calculatePolygonCentroid(Rotate(arg, k))
       /\ retObject' = calculatePolygonCentroidObject(Rotate(arg, k))
  /\ origin' = Origin(arg, ret)
  /\ UNCHANGED <<fn, locals>>
  /\ UNCHANGED isAnalyzing

CallCalculateDistance ==
  /\ fn = "idle"
  /\ fn' = "calculateDistance"
  /\ ret' = calculateDistance(arg[1], arg[2])
  /\ UNCHANGED <<arg, locals, origin>>
  /\ retObject' = NotAnObject
  /\ UNCHANGED isAnalyzing

\* a second call, on the same two points in the other order
CallCalculateDistanceSwapped ==
  /\ fn = "calculateDistance"
  /\ ~origin.present
  /\ arg' = <<arg[2], arg[1]>>
  /\ ret' = calculateDistance(arg[2], arg[1])
  /\ origin' = Origin(arg, ret)
  /\ UNCHANGED <<fn, locals>>
  /\ retObject' = NotAnObject
  /\ UNCHANGED isAnalyzing

\* the handler of the location tab, with the call of the service it awaits
CallHandleFileAnalysis ==
  /\ fn = "idle"
  /\ fn' = "handleFileAnalysis"
  /\ origin' = Origin(arg, analyzePermitDocument(arg))
  /\ ret' = Returned(handleFileAnalysis(analyzePermitDocument(arg)))
  /\ UNCHANGED <<arg, locals, retObject>>
  /\ UNCHANGED isAnalyzing

CallAnalyzeDateDocument ==
  /\ fn = "idle"
  /\ fn' = "analyzeDateDocument"
  /\ ret' = analyzeDateDocument(arg)
  /\ UNCHANGED <<arg, locals, origin, retObject>>
  /\ UNCHANGED isAnalyzing

\* the effect of PolygonMapView on polygonData
RenderPolygonMap ==
  /\ fn = "idle"
  /\ fn' = "PolygonMapView"
  /\ ret' = Returned(VertexMarkers(arg.points))
  /\ UNCHANGED <<arg, locals, origin, retObject, isAnalyzing>>

\* analyzeMultipleFilesSeparately on the results of its files (line 1474)
CallCombineAnalysisResults ==
  /\ fn = "idle"
  /\ fn' = "combineAnalysisResults"
  /\ ret' = Returned(combineAnalysisResults(arg))
  /\ UNCHANGED <<arg, locals, origin, retObject, isAnalyzing>>

\* The run of a handler of an upload (App.handleFileAnalysis,
\* App.handleDateAnalysis, PolygonCreator.handleFileAnalysis), step by step:
\* fn is where the run waits.  Line 22: setIsAnalyzing(true), then the call
\* of the service, which throws at once without a key and else starts the
\* FileReader.
StartAnalysis ==
  /\ fn = "idle"
  /\ isAnalyzing' = TRUE
  /\ IF arg.apiKey = ""
     THEN fn' = "settled" /\ ret' = Thrown(ApiKeyNotConfigured)
     ELSE fn' = "extractContent" /\ ret' = ret
  /\ UNCHANGED <<arg, locals, origin, retObject>>

\* reader.onload: extractPDFText rejects when the conversion throws,
\* extractImageContent resolves.  There is no reader.onerror: when the file
\* cannot be read no handler runs and the promise stays pending.
ReaderOnLoad ==
  /\ fn = "extractContent"
  /\ arg.read = "load"
  /\ IF arg.fileType = "application/pdf" /\ arg.conversionThrows
     THEN fn' = "settled" /\ ret' = Thrown(ErrorExtractingContent)
     ELSE fn' = "fetch" /\ ret' = ret
  /\ UNCHANGED <<arg, locals, origin, retObject, isAnalyzing>>

\* the fetch settles and the service returns the parsed reply or throws
FetchSettled ==
  /\ fn = "fetch"
  /\ fn' = "settled"
  /\ ret' = IF arg.response = "accepted"
            THEN Returned(<<"parsedResult">>)
            ELSE Thrown(AnalysisError(arg.handler))
  /\ UNCHANGED <<arg, locals, origin, retObject, isAnalyzing>>

\* the rest of the try or the catch, and the finally: setIsAnalyzing(false)
FinishAnalysis ==
  /\ fn = "settled"
  /\ fn' = "done"
  /\ isAnalyzing' = FALSE
  /\ UNCHANGED <<arg, ret, locals, origin, retObject>>

InitUtm == InitWith(UtmInputs)
NextUtm == CallUtmToGeographic
SpecUtm == InitUtm /\ [][NextUtm]_vars

InitRoundTrip == InitWith(GeoInputs)
NextRoundTrip == CallGeographicToUtm \/ CallUtmToGeographicOfResult
SpecRoundTrip == InitRoundTrip /\ [][NextRoundTrip]_vars

InitNullable == InitWith(NullableUtmInputs \cup NullableGeoInputs)
NextNullable ==
  \/ CallUtmToGeographic
  \/ CallGeographicToUtm
  \/ CallValidateUtmCoordinates
  \/ CallValidateGeographicCoordinates
SpecNullable == InitNullable /\ [][NextNullable]_vars

InitCentroid == InitWith(PolygonInputs)
NextCentroid == CallCalculatePolygonCentroid \/ CallCentroidOfRotation
SpecCentroid == InitCentroid /\ [][NextCentroid]_vars

InitValidate == InitWith(ValidatorUtmInputs \cup ValidatorGeoInputs)
NextValidate == CallValidateUtmCoordinates \/ CallValidateGeographicCoordinates
SpecValidate == InitValidate /\ [][NextValidate]_vars

InitOutOfRange == InitWith(OutOfRangeUtmInputs \cup OutOfRangeGeoInputs)
NextOutOfRange == CallUtmToGeographic \/ CallGeographicToUtm
SpecOutOfRange == InitOutOfRange /\ [][NextOutOfRange]_vars

InitDistance == InitWith(DistanceInputs)
NextDistance == CallCalculateDistance \/ CallCalculateDistanceSwapped
SpecDistance == InitDistance /\ [][NextDistance]_vars

InitHemispheres == InitWith(HemisphereGeoInputs)
NextHemispheres == CallGeographicToUtm
SpecHemispheres == InitHemispheres /\ [][NextHemispheres]_vars

InitPermit == InitWith(PermitEnvironments)
NextPermit == CallHandleFileAnalysis
SpecPermit == InitPermit /\ [][NextPermit]_vars

InitDates == InitWith(DateEnvironments)
NextDates == CallAnalyzeDateDocument
SpecDates == InitDates /\ [][NextDates]_vars

\* the event loop runs every continuation that can run
InitAnalyzing == InitWith(AnalysisRuns)
NextAnalyzing == StartAnalysis \/ ReaderOnLoad \/ FetchSettled \/ FinishAnalysis
SpecAnalyzing == InitAnalyzing /\ [][NextAnalyzing]_vars /\ WF_vars(NextAnalyzing)

InitPolygonMap == InitWith(PolygonDataInputs)
NextPolygonMap == RenderPolygonMap
SpecPolygonMap == InitPolygonMap /\ [][NextPolygonMap]_vars

InitCombine == InitWith(CombineInputs)
NextCombine == CallCombineAnalysisResults
SpecCombine == InitCombine /\ [][NextCombine]_vars

(***************************************************************************)
(* Properties.                                                             *)
(***************************************************************************)
Zone19Q == <<"1", "9", "Q">>
Zone19N == <<"1", "9", "N">>
Zone20Q == <<"2", "0", "Q">>
Zone20N == <<"2", "0", "N">>

\* |x - y| <= tol, false when either is NaN
Near(x, y, tol) ==
  LET d == FSub(x, y)
  IN  InOrder(<<x, y, tol, d, FLe(FAbs(d), tol)>>)

InRegion(p) ==
  /\ FGe(p.lat, Dec(175, 1)) /\ FLe(p.lat, F(20))
  /\ FGe(p.lng, F(-72)) /\ FLe(p.lng, F(-68))

\* an upper bound of the distance of p and q in metres: in the region a degree of
\* latitude is less than 110 800 m and a degree of longitude less than 106 300 m
WithinOneMetre(p, q) ==
  LET north == FMul(FSub(q.lat, p.lat), F(110800))
      east == FMul(FSub(q.lng, p.lng), F(106300))
  IN  FLe(FAdd(FMul(north, north), FMul(east, east)), F(1))

RoundTripDone == fn = "utmToGeographic" /\ origin.present

\* C1: for every geographic coordinate p with lat in [17.5, 20] and lng in
\* [-72, -68], utmToGeographic(geographicToUtm(p)) returns a point within 1 metre of p
C1_RoundTripWithinOneMetre ==
  (RoundTripDone /\ InRegion(origin.arg)) =>
    (~ret.threw /\ WithinOneMetre(origin.arg, ret.value))

\* a round trip of a point of the region that does not give the point back bit for bit
C1_Witness ==
  /\ RoundTripDone
  /\ InRegion(origin.arg)
  /\ ~ret.threw
  /\ ret.value # origin.arg

Scenario == [x |-> F(561063), y |-> F(2066147), zone |-> Zone19Q]

ScenarioDone == fn = "utmToGeographic" /\ arg = Scenario

\* C2, amended: utmToGeographic({x: 561063, y: 2066147, zone: "19Q"}) returns a
\* latitude within 0.01 degrees of 18.686 and a longitude within 0.01 degrees of -68.421
C2_ScenarioResult ==
  ScenarioDone =>
    /\ ~ret.threw
    /\ Near(ret.value.lat, Dec(18686, 3), Dec(1, 2))
    /\ Near(ret.value.lng, Dec(-68421, 3), Dec(1, 2))

C2_Witness == ScenarioDone /\ ~ret.threw /\ locals.zoneNumber = 19

\* C2 as stated: the latitude is within 0.01 degrees of 18.698 and the longitude
\* within 0.01 degrees of -69.873
C2_AsStated ==
  ScenarioDone =>
    /\ ~ret.threw
    /\ Near(ret.value.lat, Dec(18698, 3), Dec(1, 2))
    /\ Near(ret.value.lng, Dec(-69873, 3), Dec(1, 2))

\* C3 as stated: "19Q" and "19N" resolve to zone number 19, "20Q" and "20N" to
\* zone number 20, in the northern hemisphere in all four cases
C3_AsStated ==
  fn = "utmToGeographic" =>
    /\ arg.zone \in {Zone19Q, Zone19N} =>
         (~locals.threw /\ locals.zoneNumber = 19 /\ locals.isNorthern)
    /\ arg.zone \in {Zone20Q, Zone20N} =>
         (~locals.threw /\ locals.zoneNumber = 20 /\ locals.isNorthern)

\* a zone string in which some digit is followed at once by N or S, of either case:
\* the standard form the engine extracts a number and a hemisphere from
HasDigitThenHemisphere(zone) ==
  \E i \in 1..(Len(zone) - 1) :
    IsDigit(zone[i]) /\ zone[i + 1] \in {"N", "S", "n", "s"}

Recognized(zone) ==
  zone \in {Zone19Q, Zone19N, Zone20Q, Zone20N} \/ HasDigitThenHemisphere(zone)

\* C4: for every zone string that matches none of the recognized forms,
\* utmToGeographic does not throw and computes its result with zone number 19 and
\* the northern hemisphere (no false northing removed)
C4_UnrecognizedFallsBackTo19North ==
  (fn = "utmToGeographic" /\ ~Recognized(arg.zone)) =>
    /\ ~ret.threw
    /\ locals.zoneNumber = 19
    /\ locals.isNorthern
    /\ ret.value = InverseMercator(arg, 19, TRUE)

C4_Witness ==
  /\ fn = "utmToGeographic"
  /\ arg.zone = <<"Q", "2", "Q">>
  /\ ~ret.threw
  /\ locals.zoneNumber = 19

\* C5: for every easting x and northing y, utmToGeographic with zone "19Q" and with
\* zone "19N" resolve to zone number 19, northern, and return latitude and longitude
\* within 0.0001 degrees of each other
C5_SameResultFor19QAnd19N ==
  (fn = "utmToGeographic" /\ arg.zone = Zone19Q) =>
    LET other == utmToGeographic([arg EXCEPT !.zone = Zone19N])
    IN  /\ locals = [threw |-> FALSE, zoneNumber |-> 19, isNorthern |-> TRUE]
        /\ ResolveZone(Zone19N) = locals
        /\ ~ret.threw /\ ~other.threw
        /\ Near(ret.value.lat, other.value.lat, Dec(1, 4))
        /\ Near(ret.value.lng, other.value.lng, Dec(1, 4))

C5_Witness ==
  /\ fn = "utmToGeographic"
  /\ arg = [x |-> F(530478), y |-> F(2042873), zone |-> Zone19Q]
  /\ ~ret.threw

\* C6 as stated: for every zone string, the zone number utmToGeographic resolves
\* and computes the central meridian with is an integer in 1..60
C6_AsStated ==
  (fn = "utmToGeographic" /\ ~ret.threw) => locals.zoneNumber \in 1..60

\* C7 as stated: no engine function throws when a coordinate field is null or missing
C7_AsStated == fn # "idle" => ~ret.threw

\* C8: calculatePolygonCentroid raises an error for the empty polygon, returning
\* no coordinate, and for no other polygon
C8_ThrowsExactlyOnEmpty ==
  fn = "calculatePolygonCentroid" =>
    /\ Len(arg) = 0 => ret = Thrown("Polygon must have at least one point")
    /\ Len(arg) > 0 => ~ret.threw

C8_Witness == fn = "calculatePolygonCentroid" /\ Len(arg) = 0 /\ ret.threw

\* C9: for every point p, calculatePolygonCentroid([p]) returns a coordinate whose
\* lat and lng equal p.lat and p.lng exactly
C9_SinglePointUnchanged ==
  (fn = "calculatePolygonCentroid" /\ Len(arg) = 1) =>
    /\ ~ret.threw
    /\ ret.value.lat = arg[1].lat
    /\ ret.value.lng = arg[1].lng

C9_Witness ==
  /\ fn = "calculatePolygonCentroid"
  /\ Len(arg) = 1
  /\ ~ret.threw
  /\ ret.value = arg[1]

RotationDone == fn = "calculatePolygonCentroid" /\ origin.present

\* half the sum of the cross terms of the ring, at least 0.00005 square degrees in size
HasArea(polygon) ==
  FGe(FAbs(FMul(CentroidSums(polygon).area, FDiv(F(5), F(10)))), Dec(5, 5))

ShoelaceTerm(polygon, i) ==
  LET j == (i + 1) % Len(polygon)
      xy == FMul(polygon[i + 1].lng, polygon[j + 1].lat)
      yx == FMul(polygon[j + 1].lng, polygon[i + 1].lat)
  IN  InOrder(<<xy, yx, FSub(xy, yx)>>)

\* the weight of a_i in a sum: 1, x_i + x_j or y_i + y_j
ShoelaceWeight(polygon, i, which) ==
  LET j == (i + 1) % Len(polygon)
  IN  CASE which = "area" -> F(1)
        [] which = "lng" -> FAdd(polygon[i + 1].lng, polygon[j + 1].lng)
        [] which = "lat" -> FAdd(polygon[i + 1].lat, polygon[j + 1].lat)

\* the sum of weight * a_i over the vertices 0 .. n - 1
RECURSIVE ShoelaceSum(_, _, _)
ShoelaceSum(polygon, n, which) ==
  LET before == ShoelaceSum(polygon, n - 1, which)
      w == ShoelaceWeight(polygon, n - 1, which)
      a == ShoelaceTerm(polygon, n - 1)
      wa == FMul(w, a)
  IN  IF n = 0 THEN FZero ELSE InOrder(<<before, w, a, wa, FAdd(before, wa)>>)

\* the signed area A: half the sum of the cross terms
SignedArea(polygon) ==
  LET sum == ShoelaceSum(polygon, Len(polygon), "area")
  IN  InOrder(<<sum, FMul(Dec(5, 1), sum)>>)

\* the centroid by the area-weighted formula: 1/(6A) times the weighted sums
ShoelaceCentroid(polygon) ==
  LET A == SignedArea(polygon)
      A6 == FMul(F(6), A)
      k == FDiv(F(1), A6)
      lat == ShoelaceSum(polygon, Len(polygon), "lat")
      lng == ShoelaceSum(polygon, Len(polygon), "lng")
  IN  InOrder(<<A, A6, k, lat, lng, [lat |-> FMul(k, lat), lng |-> FMul(k, lng)]>>)

\* C11: for every polygon of two or more vertices whose signed area A is not zero,
\* calculatePolygonCentroid returns lng = (1/(6A)) * sum of (x_i + x_j) * a_i and
\* lat = (1/(6A)) * sum of (y_i + y_j) * a_i, to the last places of binary64
\* arithmetic (within 0.000000000001 degrees)
C11_CentroidIsAreaWeighted ==
  (fn = "calculatePolygonCentroid" /\ Len(arg) >= 2 /\ ~IsZero(SignedArea(arg))) =>
    LET formula == ShoelaceCentroid(arg)
    IN  /\ ~ret.threw
        /\ formula = formula
        /\ Near(ret.value.lat, formula.lat, Dec(1, 12))
        /\ Near(ret.value.lng, formula.lng, Dec(1, 12))

\* the centroid of a triangle with area has been computed
C11_Witness ==
  /\ fn = "calculatePolygonCentroid"
  /\ Len(arg) = 3
  /\ ~IsZero(SignedArea(arg))
  /\ ~ret.threw
  /\ IsNum(ret.value.lat)

\* v is a number from lo to hi, both included
InClosedRange(v, lo, hi) ==
  ToNumber(v).k = "num" /\ FGe(ToNumber(v), F(lo)) /\ FLe(ToNumber(v), F(hi))

\* one or two digits followed by N or S of either case, and nothing else
IsZoneOfStandardForm(zone) ==
  /\ Len(zone) \in {2, 3}
  /\ \A i \in 1..(Len(zone) - 1) : IsDigit(zone[i])
  /\ zone[Len(zone)] \in {"N", "S", "n", "s"}

\* the number the digits of a zone of the standard form denote
StandardZoneNumber(zone) ==
  IF Len(zone) = 2 THEN DigitValue(zone[1])
  ELSE 10 * DigitValue(zone[1]) + DigitValue(zone[2])

\* C12 as stated: validateUtmCoordinates returns true exactly when the zone is one
\* or two digits followed by N or S (either case) with nothing else, the zone
\* number is in 1..60, the easting is in [160000, 840000] and the northing is in
\* [0, 10000000]
C12_AsStated ==
  fn = "validateUtmCoordinates" =>
    /\ ~ret.threw
    /\ ret.value = (/\ IsZoneOfStandardForm(arg.zone)
                    /\ StandardZoneNumber(arg.zone) \in 1..60
                    /\ InClosedRange(arg.x, 160000, 840000)
                    /\ InClosedRange(arg.y, 0, 10000000))

\* C13: validateGeographicCoordinates returns true exactly when lat is in
\* [-90, 90] and lng is in [-180, 180], the limits included
C13_TrueExactlyInRanges ==
  fn = "validateGeographicCoordinates" =>
    /\ ~ret.threw
    /\ ret.value = (InClosedRange(arg.lat, -90, 90) /\ InClosedRange(arg.lng, -180, 180))

\* the corner lat = 90, lng = 180 has been found valid
C13_Witness ==
  /\ fn = "validateGeographicCoordinates"
  /\ arg = [lat |-> F(90), lng |-> F(180)]
  /\ ret = Returned(TRUE)

\* C14: utmToGeographic and geographicToUtm do not call the validators and signal
\* no error for numeric input out of range: they return a coordinate for it
C14_ReturnsForOutOfRange ==
  /\ fn = "utmToGeographic" =>
       (~ret.threw /\ DOMAIN ret.value = {"lat", "lng"})
  /\ fn = "geographicToUtm" =>
       (~ret.threw /\ DOMAIN ret.value = {"x", "y", "zone"})

\* both conversions have returned for an argument that the validator of its type rejects
C14_Witness ==
  \/ /\ fn = "utmToGeographic"
     /\ arg = [x |-> F(159999), y |-> F(-1), zone |-> Zone19N]
     /\ validateUtmCoordinates(arg) = Returned(FALSE)
     /\ ~ret.threw
     /\ IsNum(ret.value.lat)
  \/ /\ fn = "geographicToUtm"
     /\ arg = [lat |-> F(91), lng |-> F(181)]
     /\ validateGeographicCoordinates(arg) = Returned(FALSE)
     /\ ~ret.threw
     /\ IsNum(ret.value.x)


\* the two points of a call of calculateDistance are valid coordinates
IsDistanceOfValidPoints ==
  /\ fn = "calculateDistance"
  /\ validateGeographicCoordinates(arg[1]) = Returned(TRUE)
  /\ validateGeographicCoordinates(arg[2]) = Returned(TRUE)

\* C15: for every pair of geographic coordinates a and b,
\* calculateDistance(a, b) equals calculateDistance(b, a): the call on the
\* points in the other order returns a number equal (===) to the first one.
C15_AsStated ==
  (IsDistanceOfValidPoints /\ origin.present)
    => FEq(ret.value, origin.ret.value)

\* what does hold of the two orders: the same outcome, bit for bit, which
\* is a distance or NaN in both
C15_SameOutcomeBothOrders ==
  (IsDistanceOfValidPoints /\ origin.present) => ret = origin.ret

\* C16: for every geographic coordinate a, calculateDistance(a, a) is 0.
C16_DistanceToItselfIsZero ==
  (IsDistanceOfValidPoints /\ arg[1] = arg[2]) => ret = Returned(FZero)

C16_Witness ==
  /\ fn = "calculateDistance"
  /\ arg[1] = [lat |-> Dec(184861, 4), lng |-> Dec(-699312, 4)]
  /\ arg[2] = arg[1]
  /\ ret = Returned(FZero)


\* C17: no engine function modifies its argument and every returned
\* coordinate is created by that call, never the same object as an input or
\* polygon element, single-point polygons included.
C17_AsStated ==
  (fn # "idle" /\ retObject.object) => retObject.created

\* what does hold: a call leaves the argument it is given as it was
C17_ArgumentUnchanged == [][fn = "idle" => arg' = arg]_vars

\* what does hold: the returned coordinate is created by the call for every
\* polygon of two or more points
C17_CreatedForTwoOrMorePoints ==
  (fn = "calculatePolygonCentroid" /\ Len(arg) >= 2) => retObject = NewObject


\* floor((lng + 180) / 6) + 1 in decimal digits
ZoneNumberString(lng) ==
  NatToString(FloorInt(FDiv(FAdd(lng, F(180)), F(6))) + 1)

\* the northing returned for the point of the same longitude at the latitude
\* mirrored to the north of the equator
MirroredNorthing(coords) ==
  geographicToUtm([lat |-> FAbs(coords.lat), lng |-> coords.lng]).value.y

\* C18: the zone string returned by geographicToUtm is the decimal
\* floor((lng + 180) / 6) + 1 followed by N when the latitude is non-negative
\* and by S when it is negative, and 10,000,000 is added to the northing
\* exactly when it is S: a northern northing lies in [0, 10,000,000), a
\* southern one is 10,000,000 less the northing of the mirrored point, to the
\* metre of the rounding.
C18_ZoneStringAndFalseNorthing ==
  (fn = "geographicToUtm" /\ ~ret.threw) =>
    LET north == FGe(arg.lat, F(0))
        zone == ZoneNumberString(arg.lng) \o <<IF north THEN "N" ELSE "S">>
        y == ret.value.y
        mirrored == IF north THEN y ELSE MirroredNorthing(arg)
        shifted == FSub(F(10000000), mirrored)
    IN  InOrder(<<
          north, zone, y, mirrored, shifted,
          /\ ret.value.zone = zone
          /\ north => (FGe(y, F(0)) /\ FLt(y, F(10000000)))
          /\ ~north => Near(y, shifted, F(1))>>)

C18_Witness ==
  /\ fn = "geographicToUtm"
  /\ arg = [lat |-> Dec(-335, 1), lng |-> Dec(1512, 1)]
  /\ ~ret.threw
  /\ ret.value.zone = <<"5", "6", "S">>
  /\ FGt(ret.value.y, F(6000000))


\* the handler has shown an alert for a request that was sent to OpenRouter
AlertedAfterRequest ==
  /\ fn = "handleFileAnalysis"
  /\ ret.value.alerted
  /\ arg.apiKey # ""
  /\ ~arg.extractionFails

\* the reply is JSON of a permit in which no coordinate is found
ReplyWithoutCoordinates ==
  /\ arg.response.ok
  /\ arg.response.content.isJson
  /\ "location" \in DOMAIN arg.response.content.value
  /\ ~(/\ Truthy(arg.response.content.value.location.utm_coordinates.x)
        /\ Truthy(arg.response.content.value.location.utm_coordinates.y))
  /\ ~(/\ Truthy(arg.response.content.value.location.geographic_coordinates.lat)
        /\ Truthy(arg.response.content.value.location.geographic_coordinates.lng))

\* C19: when the analysis fails, the error that reaches the handler still
\* carries the message of its cause and the matching suggestions are shown:
\* a response that is not OK reaches it with 'OpenRouter API error', a reply
\* without coordinates with 'No se pudieron encontrar coordenadas'.
C19_AsStated ==
  AlertedAfterRequest =>
    /\ ~arg.response.ok =>
         /\ Includes(ret.value.errorMessage, <<"OpenRouter", "API", "error">>)
         /\ ret.value.suggestions # <<>>
    /\ ReplyWithoutCoordinates =>
         /\ Includes(ret.value.errorMessage,
                     <<"No", "se", "pudieron", "encontrar", "coordenadas">>)
         /\ ret.value.suggestions # <<>>

\* what does hold: every failure after the request was sent reaches the
\* handler as 'Error analyzing document with AI', for which it has no suggestion
C19_OnlyTheGenericMessageReaches ==
  AlertedAfterRequest =>
    /\ ret.value.errorMessage = ErrorAnalyzingDocument
    /\ ret.value.suggestions = <<>>


\* the calendar date n days after a date, counted month by month (n >= 0)
RECURSIVE DaysAfter(_, _)
DaysAfter(date, n) ==
  IF date.d + n <= DaysInMonth(date.y, date.m)
  THEN [date EXCEPT !.d = @ + n]
  ELSE DaysAfter(
         IF date.m = 12 THEN [y |-> date.y + 1, m |-> 1, d |-> 1]
                        ELSE [y |-> date.y, m |-> date.m + 1, d |-> 1],
         n - (DaysInMonth(date.y, date.m) - date.d + 1))

\* the calendar date that a date string names in its first ten characters
WrittenDate(str) ==
  [y |-> NumberOfDigits(SubSeq(str, 1, 4)), m |-> NumberOfDigits(SubSeq(str, 6, 7)),
   d |-> NumberOfDigits(SubSeq(str, 9, 10))]

\* the result of analyzeDateDocument: its expiration_date is the date
\* authorized_days days after the date written in emission_date, and
\* days_remaining is the whole number of days, rounded up, from the time of
\* the analysis to the start (UTC) of that date
DatesAreAsPromised ==
  LET expiration == DaysAfter(WrittenDate(ret.value.emission_date),
                              ret.value.authorized_days)
      left == DaysFromCivil(expiration.y, expiration.m, expiration.d) * 24 * 60
                - arg.today.time
  IN  /\ ret.value.expiration_date
           = DateString(expiration.y, expiration.m, expiration.d)
      /\ (ret.value.days_remaining - 1) * 24 * 60 < left
      /\ left <= ret.value.days_remaining * 24 * 60

\* C20: whenever analyzeDateDocument returns successfully, expiration_date is
\* the calendar date exactly authorized_days days after emission_date and
\* days_remaining is the number of days from the current time to it.
C20_AsStated ==
  (fn = "analyzeDateDocument" /\ ~ret.threw) => DatesAreAsPromised

\* what does hold: the same, when emission_date is a date alone (YYYY-MM-DD)
C20_HoldsForDatesAlone ==
  (fn = "analyzeDateDocument" /\ ~ret.threw /\ Len(ret.value.emission_date) = 10)
    => DatesAreAsPromised


\* the reply to analyzeDateDocument was parsed and holds a date_info
DateInfoReceived ==
  /\ fn = "analyzeDateDocument"
  /\ arg.apiKey # ""
  /\ ~arg.extractionFails
  /\ arg.response.ok
  /\ arg.response.content.isJson
  /\ "date_info" \in DOMAIN arg.response.content.value

\* C21: whenever analyzeDateDocument returns successfully the result has a
\* non-empty emission_date and a non-zero authorized_days, its status is
\* 'valid' or 'expired' and never 'unknown', is_expired is true exactly when
\* the status is 'expired', which is exactly when days_remaining < 0; and
\* when either field is missing the call fails instead of returning.
C21_StatusOfEveryResult ==
  /\ (fn = "analyzeDateDocument" /\ ~ret.threw) =>
       /\ ret.value.emission_date # <<>>
       /\ ret.value.authorized_days # 0
       /\ ret.value.status \in {"valid", "expired"}
       /\ ret.value.is_expired <=> ret.value.status = "expired"
       /\ ret.value.is_expired <=> ret.value.days_remaining < 0
  /\ (/\ DateInfoReceived
      /\ \/ arg.response.content.value.date_info.emission_date = <<>>
         \/ arg.response.content.value.date_info.authorized_days = 0)
       => ret.threw

C21_Witness ==
  /\ fn = "analyzeDateDocument"
  /\ ~ret.threw
  /\ ret.value.emission_date = DateString(2024, 12, 15)
  /\ ret.value.authorized_days = 30
  /\ ret.value.status = "expired"
  /\ ret.value.is_expired
  /\ ret.value.days_remaining < 0


\* the handler has stored an analysis result; the location of the reply
StoredResult == fn = "handleFileAnalysis" /\ ~ret.value.alerted
ReplyLocation == arg.response.content.value.location

Absent(v) == v.k \in {"null", "undef"}

\* the stored geographic coordinates are those that utmToGeographic returns
\* for the UTM coordinates of the reply
StoredIsConverted ==
  /\ ~utmToGeographic(ReplyLocation.utm_coordinates).threw
  /\ ret.value.analysisResult.geographic
       = utmToGeographic(ReplyLocation.utm_coordinates).value

\* C22: in App.handleFileAnalysis, when the geographic lat or lng of the
\* reply is absent (null or missing) and UTM x and y are present, the stored
\* geographic coordinates are utmToGeographic of the UTM coordinates of the
\* reply; when both are present, utmToGeographic is not called and the
\* geographic coordinates of the reply are stored unchanged.
C22_AsStated ==
  StoredResult =>
    /\ (/\ Absent(ReplyLocation.geographic_coordinates.lat)
          \/ Absent(ReplyLocation.geographic_coordinates.lng)
        /\ ~Absent(ReplyLocation.utm_coordinates.x)
        /\ ~Absent(ReplyLocation.utm_coordinates.y))
         => StoredIsConverted
    /\ (/\ ~Absent(ReplyLocation.geographic_coordinates.lat)
        /\ ~Absent(ReplyLocation.geographic_coordinates.lng))
         => /\ ~ret.value.utmToGeographicCalled
            /\ ret.value.analysisResult.geographic
                 = ReplyLocation.geographic_coordinates

\* what does hold: the same for a lat or lng that is null, UTM x and y that
\* are numbers other than 0, and a zone that is a string
C22_ConvertedWhenNull ==
  StoredResult =>
    /\ (/\ ReplyLocation.geographic_coordinates.lat.k = "null"
          \/ ReplyLocation.geographic_coordinates.lng.k = "null"
        /\ Truthy(ReplyLocation.utm_coordinates.x)
        /\ Truthy(ReplyLocation.utm_coordinates.y)
        /\ ReplyLocation.utm_coordinates.zone # NullZone)
         => StoredIsConverted /\ ret.value.utmToGeographicCalled
    /\ (/\ ~Absent(ReplyLocation.geographic_coordinates.lat)
        /\ ~Absent(ReplyLocation.geographic_coordinates.lng))
         => /\ ~ret.value.utmToGeographicCalled
            /\ ret.value.analysisResult.geographic
                 = ReplyLocation.geographic_coordinates


\* C23: every run of handleFileAnalysis, handleDateAnalysis or
\* PolygonCreator.handleFileAnalysis that sets isAnalyzing to true is
\* eventually followed by isAnalyzing being set back to false, whether the
\* analysis succeeds, the AI call fails or reading the file fails.
C23_AsStated == (isAnalyzing = TRUE) ~> (isAnalyzing = FALSE)

\* what does hold: isAnalyzing is set back in every run whose file the
\* FileReader loads, and in every run without a key
C23_ReleasedWhenTheFileLoads ==
  (isAnalyzing = TRUE /\ (arg.read = "load" \/ arg.apiKey = ""))
    ~> (isAnalyzing = FALSE)


\* v is a finite number from the least to the greatest of the vertices' values
\* of a field
WithinVertices(v, polygon, field) ==
  /\ IsFinite(v)
  /\ \E i \in 1..Len(polygon) : FLe(polygon[i][field], v)
  /\ \E j \in 1..Len(polygon) : FGe(polygon[j][field], v)

\* C24: for every polygon with two or more vertices, two-vertex and collinear
\* (zero-area) polygons included, calculatePolygonCentroid returns a centroid
\* whose lat and lng are finite numbers lying within the bounding box of the
\* vertices; it never divides by a zero signed area.
C24_AsStated ==
  (fn = "calculatePolygonCentroid" /\ Len(arg) >= 2) =>
    /\ ~ret.threw
    /\ WithinVertices(ret.value.lat, arg, "lat")
    /\ WithinVertices(ret.value.lng, arg, "lng")
    /\ ~IsZero(CentroidSums(arg).area)

\* what the code does for two vertices: the two cross terms cancel, the signed
\* area is zero, and the quotients by 6 * area are no finite numbers
C24_TwoVerticesGiveNoNumber ==
  (fn = "calculatePolygonCentroid" /\ Len(arg) = 2) =>
    /\ ~ret.threw
    /\ IsZero(CentroidSums(arg).area)
    /\ ~IsFinite(ret.value.lat)
    /\ ~IsFinite(ret.value.lng)


\* C25: every zone string that utmToGeographic recognizes explicitly as a
\* Dominican Republic zone ("19Q", "19N", "20N") is accepted by
\* validateUtmCoordinates when the easting is in [160000, 840000] and the
\* northing is in [0, 10000000].
C25_AsStated ==
  (/\ fn = "validateUtmCoordinates"
   /\ arg.zone \in {Zone19Q, Zone19N, Zone20N}
   /\ InClosedRange(arg.x, 160000, 840000)
   /\ InClosedRange(arg.y, 0, 10000000)) => ret = Returned(TRUE)

\* what does hold: of these zones "19N" and "20N" are accepted in the ranges, and
\* "19Q" is refused whatever the easting and the northing
C25_DigitsAndHemisphereAccepted ==
  fn = "validateUtmCoordinates" =>
    /\ (/\ arg.zone \in {Zone19N, Zone20N}
        /\ InClosedRange(arg.x, 160000, 840000)
        /\ InClosedRange(arg.y, 0, 10000000)) => ret = Returned(TRUE)
    /\ arg.zone = Zone19Q => ret = Returned(FALSE)


\* the zone check of validateUtmCoordinates (lines 193-198): the pattern
\* matches and the number is in 1..60
PassesZoneCheck(zone) ==
  LET zoneMatch == ZoneMatchStrict(zone)
  IN  /\ zoneMatch # <<>>
      /\ parseInt(zoneMatch[1]) \in 1..60

\* C26: for every geographic coordinate accepted by
\* validateGeographicCoordinates (lng = 180 and lng = -180 included), the zone
\* string returned by geographicToUtm has a zone number in 1..60 and passes the
\* zone check of validateUtmCoordinates.
C26_AsStated ==
  (fn = "geographicToUtm" /\ validateGeographicCoordinates(arg) = Returned(TRUE)) =>
    /\ ~ret.threw
    /\ PassesZoneCheck(ret.value.zone)

\* what does hold: the zone passes the check for every accepted coordinate
\* whose longitude is less than 180, and for longitude 180 the zone number is 61
C26_PassesBelow180 ==
  (fn = "geographicToUtm" /\ validateGeographicCoordinates(arg) = Returned(TRUE)) =>
    /\ ~ret.threw
    /\ FLt(arg.lng, F(180)) => PassesZoneCheck(ret.value.zone)
    /\ arg.lng = F(180) => SubSeq(ret.value.zone, 1, 2) = <<"6", "1">>


\* the popup of a marker is written from the point its position comes from
ShowsItsOwnPoint(marker, points) ==
  /\ marker.originalPoint.label = points[marker.source].label
  /\ marker.originalPoint.x = points[marker.source].x
  /\ marker.originalPoint.y = points[marker.source].y
  /\ marker.originalPoint.zone = points[marker.source].zone

\* a point of the polygon whose conversion failed
SomePointFails(points) ==
  \E i \in 1..Len(points) : points[i].zone = NullZone

\* C27: in PolygonMapView, every vertex marker placed on the map shows the
\* label and UTM values of the same input point whose conversion produced that
\* marker's position, also when some input points fail conversion and are
\* filtered out before the markers are created.
C27_AsStated ==
  fn = "PolygonMapView" =>
    \A index \in 1..Len(ret.value.markers) :
      ShowsItsOwnPoint(ret.value.markers[index], arg.points)

\* what does hold: the markers show their own points when every point is
\* converted, and then there is one marker for each point
C27_OwnPointWhenAllConvert ==
  (fn = "PolygonMapView" /\ ~SomePointFails(arg.points)) =>
    /\ Len(ret.value.markers) = Len(arg.points)
    /\ \A index \in 1..Len(ret.value.markers) :
         ShowsItsOwnPoint(ret.value.markers[index], arg.points)


\* the expiration instant of a result: its emission date plus authorized_days
\* times 24 hours, in minutes
ExpirationInstant ==
  ExpirationTime(NewDate(ret.value.emission_date, arg.timezoneOffset),
                 ret.value.authorized_days)

\* C28: analyzeDateDocument reports a permit as expired (is_expired true,
\* status 'expired') whenever its expiration instant, emission date plus
\* authorized_days times 24 hours, is earlier than the current time, and as
\* valid only when that instant is not in the past.
C28_AsStated ==
  (fn = "analyzeDateDocument" /\ ~ret.threw) =>
    /\ ExpirationInstant < arg.today.time =>
         (ret.value.is_expired /\ ret.value.status = "expired")
    /\ ret.value.status = "valid" => ExpirationInstant >= arg.today.time

\* what does hold: the permit is reported as expired exactly when the
\* expiration instant is 24 hours or more in the past, and as valid otherwise
C28_ExpiredAfterAWholeDay ==
  (fn = "analyzeDateDocument" /\ ~ret.threw) =>
    /\ ret.value.is_expired <=> ExpirationInstant + 24 * 60 <= arg.today.time
    /\ ret.value.status = (IF ret.value.is_expired THEN "expired" ELSE "valid")


\* the points of results[1..n], one result after the other
RECURSIVE PointsOfAll(_, _)
PointsOfAll(results, n) ==
  IF n = 0 THEN <<>>
  ELSE PointsOfAll(results, n - 1) \o results[n].location.all_points.items

\* C29: combineAnalysisResults returns an all_points list that contains the
\* points of every input result exactly once, in input order, so its length is
\* the sum of the lengths of the inputs' all_points lists.
C29_AsStated ==
  fn = "combineAnalysisResults" =>
    ret.value.location.all_points.items = PointsOfAll(arg, Len(arg))

\* what the code returns: the points of the first result twice, then the
\* points of the other results once, in input order
C29_FirstResultTwice ==
  fn = "combineAnalysisResults" =>
    ret.value.location.all_points.items =
      arg[1].location.all_points.items \o PointsOfAll(arg, Len(arg))


\* the polygon_center of the stored analysis result
StoredCenter == ret.value.analysisResult.polygon_center

\* C30: whenever App.handleFileAnalysis stores an analysis result, the stored
\* polygon_center has a numeric (non-null, defined) lat and lng; this holds for
\* every AI response that analyzePermitDocument lets through, including one
\* whose UTM zone is null or whose geographic fields are missing.
C30_AsStated ==
  StoredResult =>
    /\ ~Absent(StoredCenter.lat) /\ IsNum(StoredCenter.lat)
    /\ ~Absent(StoredCenter.lng) /\ IsNum(StoredCenter.lng)

\* what does hold: the center is numeric when the reply gives both geographic
\* coordinates as numbers, or gives one of them as null with UTM x and y other
\* than 0 and a zone that is a string
C30_NumericWhenLocated ==
  (/\ StoredResult
   /\ \/ /\ IsNum(ReplyLocation.geographic_coordinates.lat)
         /\ IsNum(ReplyLocation.geographic_coordinates.lng)
      \/ /\ ReplyLocation.geographic_coordinates.lat.k = "null"
            \/ ReplyLocation.geographic_coordinates.lng.k = "null"
         /\ Truthy(ReplyLocation.utm_coordinates.x)
         /\ Truthy(ReplyLocation.utm_coordinates.y)
         /\ ReplyLocation.utm_coordinates.zone # NullZone)
    => IsNum(StoredCenter.lat) /\ IsNum(StoredCenter.lng)

====
